---- MODULE Spec2Model ----
(***************************************************************************)
(* Model of parking-lot-counter (src/main.go): the centroid tracker        *)
(* (CentroidMap), the trajectory tracker (CarMap), the zone counter        *)
(* (ParkingLot) as they are run by frameRunner for every frame, and the    *)
(* goroutine pipeline of main / frameRunner / messageRunner.               *)
(***************************************************************************)
EXTENDS Integers, Sequences, FiniteSets, TLC

VARIABLES
    entrance,    \* flag -entrance (global)
    maxDist,     \* flag -max-dist (global)
    maxGone,     \* flag -max-gone (global)
    centroids,   \* frameRunner: centroids CentroidMap, id -> Centroid
    cars,        \* frameRunner: cars CarMap, id -> Car
    TotalIn,     \* frameRunner: parkingLot.TotalIn
    TotalOut,    \* frameRunner: parkingLot.TotalOut
    nextId,      \* the next identifier uuid.New() hands out
    centerPoints,\* frameRunner: centerPoints of the frame being processed
    pc,          \* position of frameRunner inside the frame case
    nFrames,     \* number of frames taken so far
    assoc,       \* history: the associations the last CentroidMap.Update made
    inCount,     \* history: id -> number of TotalIn++ executed for that car
    outCount,    \* history: id -> number of TotalOut++ executed for that car
    publish,     \* flag -publish (global)
    mainPc,      \* position of the main goroutine
    frPc,        \* position of the frameRunner goroutine
    msgPc,       \* position of the messageRunner goroutine
    framesChan,  \* main: framesChan, capacity 1
    framesClosed,\* close(framesChan) was executed
    doneClosed,  \* close(doneChan) was executed
    resultsChan, \* main: resultsChan, capacity 1
    resultsClosed, \* close(resultsChan) was executed
    pubChan,     \* main: pubChan, capacity 1 (nil when publish is off)
    pubClosed,   \* close(pubChan) was executed
    sigChan,     \* main: sigChan; "none", "pending" or "taken"
    errChan,     \* main: errChan, the number of values it holds
    wg,          \* main: wg, the WaitGroup counter
    tick,        \* messageRunner: a value waits in ticker.C
    captured,    \* number of frames vc.Read has delivered
    img,         \* main: img, the capture it holds and whether main drew on it
    frFrame,     \* frameRunner: frame, the number of the frame it holds
    frImg,       \* frameRunner: img, its copy of the image of the frame
    resultCell,  \* frameRunner: *result, the one Result it sends again and again
    mainResult,  \* main: result, "own" (new(Result)) or "shared" (frameRunner's)
    processed,   \* history: the frames frameRunner processed, with the image it saw
    accessed,    \* history: objects of frameRunner that main or messageRunner read
    handedOff,   \* history: frameRunner has sent its result at least once
    ticksTaken,  \* history: number of values messageRunner took from ticker.C
    published,   \* history: the messages handed to Publish, and whether it succeeded
    crashed,     \* a goroutine panicked: the process is gone
    carRects,    \* frameRunner: carRects, the rectangles detectCars returned
    imgSize,     \* frameRunner: img.Cols() and img.Rows() of the frame
    mirror       \* a second frameRunner: its centroids, cars and parkingLot

trackerVars == <<entrance, maxDist, maxGone, centroids, cars, TotalIn, TotalOut,
                 nextId, centerPoints, pc, nFrames, assoc, inCount, outCount>>

pipeVars == <<publish, mainPc, frPc, msgPc, framesChan, framesClosed, doneClosed,
              resultsChan, resultsClosed, pubChan, pubClosed, sigChan, errChan, wg,
              tick, captured, img, frFrame, frImg, resultCell, mainResult, processed,
              accessed, handedOff, ticksTaken, published, crashed>>

extractVars == <<carRects, imgSize>>

mirrorVars == <<mirror>>

vars == <<trackerVars, pipeVars, extractVars, mirrorVars>>

----------------------------------------------------------------------------
(* Bounds of the exploration *)

\* frames fed to the three trackers in one behaviour of Spec
MaxFrames == 4

\* detections (center points) in one frame of Spec
MaxDetections == 1

\* calls of CentroidMap.Update in one behaviour of SpecCentroids
MaxUpdates == 4

\* points handed to one CentroidMap.Update in SpecCentroids
MaxPoints == 2

\* frames the video source delivers before vc.Read fails, in Pipeline
MaxCaptured == 2

\* cars in the map handed to ParkingLot.Update in SpecLot
MaxLotCars == 2

\* frames with detections in one behaviour of SpecLive
MaxLiveFrames == 2

\* detections (center points) in one frame of SpecLive
MaxLiveDetections == 1

\* rectangles handed to one extractCenterPoints in SpecExtract
MaxRects == 2

\* frames the video source delivers before vc.Read fails, in PipelineLong
MaxEnqueued == 3

(* Inputs *)

Pt(x, y) == [X |-> x, Y |-> y]

\* Points handed to CentroidMap.Update in SpecCentroids.  (0,0)-(53,74) is
\* outside both gates (50 on X, 70 on Y), (3,4)-(53,74) is exactly on them,
\* and (0,0)-(3,4) is at distance 5.
Points == {Pt(0, 0), Pt(3, 4), Pt(53, 74)}

\* Center points of the frames of Spec.  (0,0)-(51,71) is outside both gates,
\* (1,1)-(51,71) exactly on them, and the neighbouring coordinates 0 and 1
\* give trajectory means that are not integers.
FramePoints == {Pt(0, 0), Pt(1, 1), Pt(51, 71)}

EntranceValues == {"t", "b", "l", "r"}
MaxDistValues == {5, 100}
MaxGoneValues == {0, 1}

RECURSIVE SeqsUpTo(_, _)
SeqsUpTo(S, n) ==
    IF n = 0 THEN {<<>>}
    ELSE LET shorter == SeqsUpTo(S, n - 1)
         IN  shorter \cup {Append(s, x) : s \in {t \in shorter : Len(t) = n - 1}, x \in S}

\* the lists of at most n pairwise distinct elements of S: the detections of
\* one frame are taken to have distinct center points
DistinctLists(S, n) ==
    {l \in SeqsUpTo(S, n) : \A i, j \in 1..Len(l) : i # j => l[i] # l[j]}

PointLists == DistinctLists(Points, MaxPoints)

FramePointLists == DistinctLists(FramePoints, MaxDetections)

LivePointLists == DistinctLists(FramePoints, MaxLiveDetections)

\* The frames of SpecExtract are 640 x 480.
FrameSizes == {[Cols |-> 640, Rows |-> 480]}

\* image.Rect(x0, y0, x1, y1) for x0 <= x1 and y0 <= y1
Rect(x0, y0, x1, y1) == [Min |-> Pt(x0, y0), Max |-> Pt(x1, y1)]

\* Left and right edges of the rectangles of SpecExtract: off the frame on
\* the left, 79, 80 and 81 wide, 301 wide in the middle, 241 wide against
\* the right edge, off the frame on the right, and empty outside the frame.
XSpans == {<<-1, 100>>, <<0, 79>>, <<0, 80>>, <<101, 182>>, <<100, 401>>, <<399, 640>>,
           <<440, 641>>, <<700, 700>>}

\* Top and bottom edges: off the frame at the top, 49 and 50 high, 401 high
\* in the middle and against the bottom edge, off the frame at the bottom.
YSpans == {<<-1, 60>>, <<0, 49>>, <<11, 61>>, <<10, 411>>, <<79, 480>>, <<130, 481>>}

Rects == {Rect(x[1], y[1], x[2], y[2]) : x \in XSpans, y \in YSpans}

RectLists == SeqsUpTo(Rects, MaxRects)

----------------------------------------------------------------------------
(* Maps *)

EmptyMap == [x \in {} |-> x]

MapPut(m, k, v) == [x \in (DOMAIN m) \cup {k} |-> IF x = k THEN v ELSE m[x]]

\* strings.EqualFold(entrance, s) for the one-letter selectors
EqualFold(e, s) ==
    \/ e = s
    \/ e = "T" /\ s = "t"
    \/ e = "B" /\ s = "b"
    \/ e = "L" /\ s = "l"
    \/ e = "R" /\ s = "r"

HorizontalMove == EqualFold(entrance, "l") \/ EqualFold(entrance, "r")
VerticalMove == EqualFold(entrance, "b") \/ EqualFold(entrance, "t")

----------------------------------------------------------------------------
(* CentroidMap *)

YGate == 70
XGate == 50

\* the zero uuid.UUID ClosestDist returns when no centroid passed the gate
NilUUID == 0

NewCentroid(id, p) == [ID |-> id, Point |-> p, goneCount |-> 0]

\* CentroidMap.Add with the identifier uuid.New() returned
CentroidAdd(cm, id, p) == MapPut(cm, id, NewCentroid(id, p))

\* GatedOut with the two tolerances exchanged
GatedOutSwapped(c, p) ==
    \/ HorizontalMove /\ (c.Point.Y < p.Y - XGate \/ c.Point.Y > p.Y + XGate)
    \/ VerticalMove /\ (c.Point.X < p.X - YGate \/ c.Point.X > p.X + YGate)

\* the two `continue` statements of ClosestDist
GatedOut(c, p) ==
    \/ HorizontalMove /\ (c.Point.Y < p.Y - YGate \/ c.Point.Y > p.Y + YGate)
    \/ VerticalMove /\ (c.Point.X < p.X - XGate \/ c.Point.X > p.X + XGate)

\* dx*dx + dy*dy; math.Sqrt is strictly increasing, so distances are
\* compared through their squares
DistSq(a, b) == (a.X - b.X) * (a.X - b.X) + (a.Y - b.Y) * (a.Y - b.Y)

Candidates(cm, p) == {id \in DOMAIN cm : ~GatedOut(cm[id], p)}

\* CentroidMap.ClosestDist: the results the range over the map can produce.
\* `found = FALSE` stands for minDist = math.MaxFloat64 with the zero UUID.
\* With several candidates at the minimum distance the one met first wins
\* (dist < minDist), and the iteration order of a Go map is not fixed.
ClosestDist(cm, p) ==
    LET cand == Candidates(cm, p)
        best == {id \in cand : \A o \in cand : DistSq(cm[id].Point, p) <= DistSq(cm[o].Point, p)}
    IN  IF cand = {}
        THEN {[found |-> FALSE, id |-> NilUUID, distSq |-> 0]}
        ELSE {[found |-> TRUE, id |-> id, distSq |-> DistSq(cm[id].Point, p)] : id \in best}

\* dist > float64(maxDist)
TooFar(r) == ~r.found \/ r.distSq > maxDist * maxDist

\* MatchPoint that leaves the goneCount of the matched centroid as it is
MatchPointNoReset(st, points, i) ==
    {IF TooFar(r) \/ i \in st.mappedPoints
     THEN st
     ELSE [cm |-> [st.cm EXCEPT ![r.id] = [@ EXCEPT !.Point = points[i]]],
           mappedPoints |-> st.mappedPoints \cup {i},
           updatedCentroids |-> st.updatedCentroids \cup {r.id},
           assoc |-> Append(st.assoc, [i |-> i, id |-> r.id,
                                       from |-> st.cm[r.id].Point, to |-> points[i]])]
     : r \in ClosestDist(st.cm, points[i])}

\* body of the first loop of Update for points[i]
MatchPoint(st, points, i) ==
    {IF TooFar(r) \/ i \in st.mappedPoints
     THEN st
     ELSE [cm |-> [st.cm EXCEPT ![r.id] = [@ EXCEPT !.Point = points[i], !.goneCount = 0]],
           mappedPoints |-> st.mappedPoints \cup {i},
           updatedCentroids |-> st.updatedCentroids \cup {r.id},
           assoc |-> Append(st.assoc, [i |-> i, id |-> r.id,
                                       from |-> st.cm[r.id].Point, to |-> points[i]])]
     : r \in ClosestDist(st.cm, points[i])}

RECURSIVE MatchLoop(_, _, _)
MatchLoop(st, points, i) ==
    IF i > Len(points) THEN {st}
    ELSE UNION {MatchLoop(s, points, i + 1) : s \in MatchPoint(st, points, i)}

\* AgeCentroids removing at goneCount >= maxGone
AgeCentroidsEarly(cm, updated) ==
    LET aged(id) == IF id \in updated THEN cm[id]
                    ELSE [cm[id] EXCEPT !.goneCount = @ + 1]
        keep == {id \in DOMAIN cm : aged(id).goneCount < maxGone \/ id \in updated}
    IN  [id \in keep |-> aged(id)]

\* AgeCentroids without the removal
AgeCentroidsNoEvict(cm, updated) ==
    [id \in DOMAIN cm |-> IF id \in updated THEN cm[id]
                          ELSE [cm[id] EXCEPT !.goneCount = @ + 1]]

\* goneCount++ and removal past maxGone, for every centroid not in `updated`
AgeCentroids(cm, updated) ==
    LET aged(id) == IF id \in updated THEN cm[id]
                    ELSE [cm[id] EXCEPT !.goneCount = @ + 1]
        keep == {id \in DOMAIN cm : aged(id).goneCount <= maxGone \/ id \in updated}
    IN  [id \in keep |-> aged(id)]

\* cm.Add(points[i]) for every index in idx, in increasing order of i
RECURSIVE AddPoints(_, _, _, _)
AddPoints(cm, next, points, idx) ==
    IF idx = {} THEN [cm |-> cm, next |-> next]
    ELSE LET i == CHOOSE j \in idx : \A k \in idx : j <= k
         IN  AddPoints(CentroidAdd(cm, next, points[i]), next + 1, points, idx \ {i})

\* CentroidMap.Update: the (map, next identifier) pairs it can end in, each
\* with the associations made on the way
CentroidMapUpdate(cm, next, points) ==
    IF Len(points) = 0
    THEN {[cm |-> AgeCentroids(cm, {}), next |-> next, assoc |-> <<>>]}
    ELSE IF DOMAIN cm = {}
    THEN {LET a == AddPoints(cm, next, points, 1..Len(points))
          IN  [cm |-> a.cm, next |-> a.next, assoc |-> <<>>]}
    ELSE {LET a == AddPoints(AgeCentroids(s.cm, s.updatedCentroids), next, points,
                             (1..Len(points)) \ s.mappedPoints)
          IN  [cm |-> a.cm, next |-> a.next, assoc |-> s.assoc]
          : s \in MatchLoop([cm |-> cm, mappedPoints |-> {}, updatedCentroids |-> {},
                            assoc |-> <<>>], points, 1)}

----------------------------------------------------------------------------
(* Car, CarMap *)

\* the coordinate MeanMovement adds up for one position
AxisValue(p) ==
    (IF HorizontalMove THEN p.X ELSE 0) + (IF VerticalMove THEN p.Y ELSE 0)

RECURSIVE AxisSum(_)
AxisSum(traject) ==
    IF traject = <<>> THEN 0 ELSE AxisValue(Head(traject)) + AxisSum(Tail(traject))

\* int(c.MeanMovement()): the mean over the whole trajectory, truncated
IntMeanMovement(traject) ==
    IF Len(traject) = 0 THEN 0 ELSE AxisSum(traject) \div Len(traject)

\* Direction with the subtraction reversed
DirectionReversed(traject, p) ==
    LET m == IntMeanMovement(traject)
    IN  IF HorizontalMove /\ m - p.X > 0 THEN "RIGHT"
        ELSE IF HorizontalMove /\ m - p.X < 0 THEN "LEFT"
        ELSE IF VerticalMove /\ m - p.Y > 0 THEN "DOWN"
        ELSE IF VerticalMove /\ m - p.Y < 0 THEN "UP"
        ELSE "STILL"

\* Car.Direction(p) for a car with trajectory `traject`
Direction(traject, p) ==
    LET m == IntMeanMovement(traject)
    IN  IF HorizontalMove /\ p.X - m > 0 THEN "RIGHT"
        ELSE IF HorizontalMove /\ p.X - m < 0 THEN "LEFT"
        ELSE IF VerticalMove /\ p.Y - m > 0 THEN "DOWN"
        ELSE IF VerticalMove /\ p.Y - m < 0 THEN "UP"
        ELSE "STILL"

\* CarMap.Add
NewCar(c) ==
    [ID |-> c.ID, Traject |-> <<c.Point>>, Dir |-> "STILL", counted |-> FALSE, gone |-> FALSE]

\* MarkGone that removes every car already gone, whatever its direction
MarkGoneAnyDir(cm, cents) ==
    LET keep == {id \in DOMAIN cm : id \in DOMAIN cents \/ ~cm[id].gone}
    IN  [id \in keep |-> IF id \in DOMAIN cents THEN cm[id] ELSE [cm[id] EXCEPT !.gone = TRUE]]

\* MarkGone that never removes a car
MarkGoneKeep(cm, cents) ==
    [id \in DOMAIN cm |-> IF id \in DOMAIN cents THEN cm[id] ELSE [cm[id] EXCEPT !.gone = TRUE]]

\* MarkGone that sets no flag: a car without centroid is removed if it is
\* gone and STILL and otherwise left as it is
MarkGoneUnflagged(cm, cents) ==
    LET keep == {id \in DOMAIN cm : id \in DOMAIN cents \/ ~(cm[id].gone /\ cm[id].Dir = "STILL")}
    IN  [id \in keep |-> cm[id]]

\* first loop of CarMap.Update: cars whose centroid disappeared
MarkGone(cm, cents) ==
    LET keep == {id \in DOMAIN cm : id \in DOMAIN cents \/ ~(cm[id].gone /\ cm[id].Dir = "STILL")}
    IN  [id \in keep |-> IF id \in DOMAIN cents THEN cm[id] ELSE [cm[id] EXCEPT !.gone = TRUE]]

\* else-branch of the second loop: append the position, then recompute Dir
TrackCar(car, c) ==
    LET t == Append(car.Traject, c.Point)
    IN  [car EXCEPT !.Traject = t, !.Dir = Direction(t, c.Point)]

\* CarMap.Update
CarMapUpdate(cm, cents) ==
    LET marked == MarkGone(cm, cents)
    IN  [id \in (DOMAIN marked) \cup (DOMAIN cents) |->
            IF id \notin DOMAIN cents THEN marked[id]
            ELSE IF id \notin DOMAIN marked THEN NewCar(cents[id])
            ELSE TrackCar(marked[id], cents[id])]

----------------------------------------------------------------------------
(* ParkingLot *)

\* InboundHit with the directions of top and bottom exchanged
InboundHitSwapped(e, dir) ==
    \/ e = "t" /\ dir = "UP"
    \/ e = "l" /\ dir = "RIGHT"
    \/ e = "b" /\ dir = "DOWN"
    \/ e = "r" /\ dir = "LEFT"

\* the first switch of ParkingLot.Update
InboundHit(e, dir) ==
    \/ e = "t" /\ dir = "DOWN"
    \/ e = "l" /\ dir = "RIGHT"
    \/ e = "b" /\ dir = "UP"
    \/ e = "r" /\ dir = "LEFT"

\* OutboundHit with the directions of left and right exchanged
OutboundHitSwapped(e, dir) ==
    \/ e = "t" /\ dir = "UP"
    \/ e = "l" /\ dir = "RIGHT"
    \/ e = "b" /\ dir = "DOWN"
    \/ e = "r" /\ dir = "LEFT"

\* the second switch of ParkingLot.Update
OutboundHit(e, dir) ==
    \/ e = "t" /\ dir = "UP"
    \/ e = "l" /\ dir = "LEFT"
    \/ e = "b" /\ dir = "DOWN"
    \/ e = "r" /\ dir = "RIGHT"

\* LotCar without the test of car.counted
LotCarRecount(car) ==
    IF ~car.gone
    THEN IF InboundHit(entrance, car.Dir)
         THEN [in |-> 1, out |-> 0, keep |-> TRUE, car |-> [car EXCEPT !.counted = TRUE]]
         ELSE [in |-> 0, out |-> 0, keep |-> TRUE, car |-> car]
    ELSE IF OutboundHit(entrance, car.Dir)
         THEN [in |-> 0, out |-> 1, keep |-> FALSE, car |-> car]
         ELSE [in |-> 0, out |-> 0, keep |-> ~car.counted, car |-> car]

\* LotCar that forgets to set car.counted
LotCarNoFlag(car) ==
    IF ~car.counted
    THEN IF ~car.gone
         THEN IF InboundHit(entrance, car.Dir)
              THEN [in |-> 1, out |-> 0, keep |-> TRUE, car |-> car]
              ELSE [in |-> 0, out |-> 0, keep |-> TRUE, car |-> car]
         ELSE IF OutboundHit(entrance, car.Dir)
              THEN [in |-> 0, out |-> 1, keep |-> FALSE, car |-> car]
              ELSE [in |-> 0, out |-> 0, keep |-> TRUE, car |-> car]
    ELSE IF car.gone
         THEN [in |-> 0, out |-> 0, keep |-> FALSE, car |-> car]
         ELSE [in |-> 0, out |-> 0, keep |-> TRUE, car |-> car]

\* LotCar that counts a counted car out when it is gone in the outbound direction
LotCarExitAfterEntry(car) ==
    IF car.gone /\ OutboundHit(entrance, car.Dir)
    THEN [in |-> 0, out |-> 1, keep |-> FALSE, car |-> car]
    ELSE IF ~car.counted
    THEN IF ~car.gone /\ InboundHit(entrance, car.Dir)
         THEN [in |-> 1, out |-> 0, keep |-> TRUE, car |-> [car EXCEPT !.counted = TRUE]]
         ELSE [in |-> 0, out |-> 0, keep |-> TRUE, car |-> car]
    ELSE [in |-> 0, out |-> 0, keep |-> ~car.gone, car |-> car]

\* LotCar that takes a counted car off TotalIn when it is removed
LotCarOccupancy(car) ==
    IF ~car.counted
    THEN IF ~car.gone
         THEN IF InboundHit(entrance, car.Dir)
              THEN [in |-> 1, out |-> 0, keep |-> TRUE, car |-> [car EXCEPT !.counted = TRUE]]
              ELSE [in |-> 0, out |-> 0, keep |-> TRUE, car |-> car]
         ELSE IF OutboundHit(entrance, car.Dir)
              THEN [in |-> 0, out |-> 1, keep |-> FALSE, car |-> car]
              ELSE [in |-> 0, out |-> 0, keep |-> TRUE, car |-> car]
    ELSE IF car.gone
         THEN [in |-> -1, out |-> 0, keep |-> FALSE, car |-> car]
         ELSE [in |-> 0, out |-> 0, keep |-> TRUE, car |-> car]

\* LotCar that evaluates the exit of a car that is still present
LotCarExitWhilePresent(car) ==
    IF ~car.counted
    THEN IF ~car.gone /\ InboundHit(entrance, car.Dir)
         THEN [in |-> 1, out |-> 0, keep |-> TRUE, car |-> [car EXCEPT !.counted = TRUE]]
         ELSE IF OutboundHit(entrance, car.Dir)
         THEN [in |-> 0, out |-> 1, keep |-> FALSE, car |-> car]
         ELSE [in |-> 0, out |-> 0, keep |-> TRUE, car |-> car]
    ELSE IF car.gone
         THEN [in |-> 0, out |-> 0, keep |-> FALSE, car |-> car]
         ELSE [in |-> 0, out |-> 0, keep |-> TRUE, car |-> car]

\* LotCar that keeps a counted car when it is gone
LotCarKeepsGone(car) ==
    IF ~car.counted
    THEN IF ~car.gone
         THEN IF InboundHit(entrance, car.Dir)
              THEN [in |-> 1, out |-> 0, keep |-> TRUE, car |-> [car EXCEPT !.counted = TRUE]]
              ELSE [in |-> 0, out |-> 0, keep |-> TRUE, car |-> car]
         ELSE IF OutboundHit(entrance, car.Dir)
              THEN [in |-> 0, out |-> 1, keep |-> FALSE, car |-> car]
              ELSE [in |-> 0, out |-> 0, keep |-> TRUE, car |-> car]
    ELSE [in |-> 0, out |-> 0, keep |-> TRUE, car |-> car]

\* body of the loop of ParkingLot.Update for one car: what is added to the
\* counters, whether the car stays in the map, and the car afterwards
LotCar(car) ==
    IF ~car.counted
    THEN IF ~car.gone
         THEN IF InboundHit(entrance, car.Dir)
              THEN [in |-> 1, out |-> 0, keep |-> TRUE, car |-> [car EXCEPT !.counted = TRUE]]
              ELSE [in |-> 0, out |-> 0, keep |-> TRUE, car |-> car]
         ELSE IF OutboundHit(entrance, car.Dir)
              THEN [in |-> 0, out |-> 1, keep |-> FALSE, car |-> car]
              ELSE [in |-> 0, out |-> 0, keep |-> TRUE, car |-> car]
    ELSE IF car.gone
         THEN [in |-> 0, out |-> 0, keep |-> FALSE, car |-> car]
         ELSE [in |-> 0, out |-> 0, keep |-> TRUE, car |-> car]

RECURSIVE SumOver(_, _)
SumOver(S, f) ==
    IF S = {} THEN 0
    ELSE LET x == CHOOSE y \in S : TRUE IN f[x] + SumOver(S \ {x}, f)

\* ParkingLot.Update: the loop over all cars
ParkingLotUpdate(cm) ==
    LET r == [id \in DOMAIN cm |-> LotCar(cm[id])]
    IN  [cars |-> [id \in {i \in DOMAIN cm : r[i].keep} |-> r[id].car],
         in |-> [id \in DOMAIN cm |-> r[id].in],
         out |-> [id \in DOMAIN cm |-> r[id].out]]

----------------------------------------------------------------------------
(* frameRunner: the frame case, one action per tracker call *)

\* the goroutines as main starts them, publish being off or on
InitGoroutines ==
    /\ publish \in BOOLEAN
    /\ mainPc = "read"
    /\ frPc = "select"
    /\ msgPc = IF publish THEN "select" ELSE "off"
    /\ framesChan = <<>>
    /\ framesClosed = FALSE
    /\ doneClosed = FALSE
    /\ resultsChan = <<>>
    /\ resultsClosed = FALSE
    /\ pubChan = <<>>
    /\ pubClosed = FALSE
    /\ sigChan = "none"
    /\ errChan = 0
    /\ wg = IF publish THEN 2 ELSE 1
    /\ tick = FALSE
    /\ captured = 0
    /\ img = [n |-> 0, drawn |-> FALSE]
    /\ frFrame = 0
    /\ frImg = [n |-> 0, drawn |-> FALSE]
    /\ resultCell = [Perf |-> 0, Centroids |-> "nil", CarsIn |-> 0, CarsOut |-> 0]
    /\ mainResult = "own"
    /\ processed = <<>>
    /\ accessed = {}
    /\ handedOff = FALSE
    /\ ticksTaken = 0
    /\ published = <<>>
    /\ crashed = FALSE

\* no rectangles yet, and the empty Mat of gocv.NewMat()
NoRects ==
    /\ carRects = <<>>
    /\ imgSize = [Cols |-> 0, Rows |-> 0]

\* centroids := make(CentroidMap); cars := make(CarMap);
\* parkingLot := &ParkingLot{} of the second frameRunner
NoMirror ==
    mirror = [centroids |-> EmptyMap, cars |-> EmptyMap, TotalIn |-> 0, TotalOut |-> 0]

\* the goroutines are not looked at: publish off, nothing started
NoGoroutines ==
    /\ InitGoroutines
    /\ publish = FALSE
    /\ NoRects
    /\ NoMirror

InitTracker(entrances, dists, gones) ==
    /\ entrance \in entrances
    /\ maxDist \in dists
    /\ maxGone \in gones
    /\ centroids = EmptyMap
    /\ cars = EmptyMap
    /\ TotalIn = 0
    /\ TotalOut = 0
    /\ nextId = 1
    /\ centerPoints = <<>>
    /\ pc = "frame"
    /\ nFrames = 0
    /\ assoc = <<>>
    /\ inCount = EmptyMap
    /\ outCount = EmptyMap

Init == InitTracker(EntranceValues, {100}, MaxGoneValues) /\ NoGoroutines

\* centroids.Update(centerPoints) with the center points of one frame
UpdateCentroids(lists) ==
    /\ \E points \in lists :
         \E r \in CentroidMapUpdate(centroids, nextId, points) :
            /\ centerPoints' = points
            /\ centroids' = r.cm
            /\ nextId' = r.next
            /\ assoc' = r.assoc
    /\ nFrames' = nFrames + 1
    /\ UNCHANGED <<entrance, maxDist, maxGone, cars, TotalIn, TotalOut, inCount, outCount>>
    /\ UNCHANGED pipeVars
    /\ UNCHANGED extractVars
    /\ UNCHANGED mirrorVars

\* frame = <-framesChan ... centroids.Update(centerPoints)
CentroidsUpdate ==
    /\ pc = "frame"
    /\ nFrames < MaxFrames
    /\ UpdateCentroids(FramePointLists)
    /\ pc' = "cars"

\* cars.Update(centroids)
CarsUpdate ==
    /\ pc = "cars"
    /\ cars' = CarMapUpdate(cars, centroids)
    /\ pc' = "lot"
    /\ UNCHANGED <<entrance, maxDist, maxGone, centroids, TotalIn, TotalOut, nextId,
                   centerPoints, nFrames, assoc, inCount, outCount>>
    /\ UNCHANGED pipeVars
    /\ UNCHANGED extractVars
    /\ UNCHANGED mirrorVars

\* parkingLot.Update(cars)
LotUpdate ==
    /\ pc = "lot"
    /\ LET r == ParkingLotUpdate(cars)
           old(f, id) == IF id \in DOMAIN f THEN f[id] ELSE 0
       IN  /\ cars' = r.cars
           /\ TotalIn' = TotalIn + SumOver(DOMAIN cars, r.in)
           /\ TotalOut' = TotalOut + SumOver(DOMAIN cars, r.out)
           /\ inCount' = [id \in (DOMAIN inCount) \cup (DOMAIN cars) |->
                            old(inCount, id) + (IF id \in DOMAIN cars THEN r.in[id] ELSE 0)]
           /\ outCount' = [id \in (DOMAIN outCount) \cup (DOMAIN cars) |->
                            old(outCount, id) + (IF id \in DOMAIN cars THEN r.out[id] ELSE 0)]
    /\ pc' = "frame"
    /\ UNCHANGED <<entrance, maxDist, maxGone, centroids, nextId, centerPoints, nFrames, assoc>>
    /\ UNCHANGED pipeVars
    /\ UNCHANGED extractVars
    /\ UNCHANGED mirrorVars

Next == CentroidsUpdate \/ CarsUpdate \/ LotUpdate

Spec == Init /\ [][Next]_vars

----------------------------------------------------------------------------
(* The frame cycle with the entrance given as a capital letter (SpecUpper) *)

\* -entrance B or R: strings.EqualFold takes them for b and r
UpperEntrances == {"B", "R"}

InitUpper == InitTracker(UpperEntrances, {100}, MaxGoneValues) /\ NoGoroutines

SpecUpper == InitUpper /\ [][Next]_vars

----------------------------------------------------------------------------
(* The frame cycle going on for ever (SpecLive): after MaxLiveFrames frames *)
(* the source keeps delivering frames, in which nothing is detected         *)

\* one entrance with vertical and one with horizontal movement
LiveEntrances == {"b", "l"}

InitLive == InitTracker(LiveEntrances, {100}, MaxGoneValues) /\ NoGoroutines

\* frame = <-framesChan ... centroids.Update(centerPoints)
LiveFrame ==
    /\ pc = "frame"
    /\ nFrames < MaxLiveFrames
    /\ UpdateCentroids(LivePointLists)
    /\ pc' = "cars"

\* frame = <-framesChan ... centroids.Update(centerPoints) with no center point
IdleFrame ==
    /\ pc = "frame"
    /\ nFrames >= MaxLiveFrames
    /\ \E r \in CentroidMapUpdate(centroids, nextId, <<>>) :
          /\ centerPoints' = <<>>
          /\ centroids' = r.cm
          /\ nextId' = r.next
          /\ assoc' = r.assoc
    /\ pc' = "cars"
    /\ UNCHANGED <<entrance, maxDist, maxGone, cars, TotalIn, TotalOut, nFrames, inCount,
                   outCount>>
    /\ UNCHANGED pipeVars
    /\ UNCHANGED extractVars
    /\ UNCHANGED mirrorVars

NextLive == LiveFrame \/ IdleFrame \/ CarsUpdate \/ LotUpdate

\* frameRunner goes round its loop as long as frames arrive
SpecLive == InitLive /\ [][NextLive]_vars /\ WF_vars(NextLive)

----------------------------------------------------------------------------
(* CentroidMap.Update on its own, with several points per call *)

InitCentroids ==
    InitTracker(EntranceValues, MaxDistValues, MaxGoneValues \cup {2}) /\ NoGoroutines

CentroidsStep ==
    /\ nFrames < MaxUpdates
    /\ UpdateCentroids(PointLists)
    /\ UNCHANGED pc

NextCentroids == CentroidsStep

SpecCentroids == InitCentroids /\ [][NextCentroids]_vars

----------------------------------------------------------------------------
(* ParkingLot.Update on its own, on a map of several cars (SpecLot) *)

\* The trajectories of car id: one or two positions out of two that lie 51
\* and 71 apart, every car in its own corner of the frame.
LotTrajects(id) ==
    LET a == Pt(200 * id, 200 * id)
        b == Pt(200 * id + 51, 200 * id + 71)
    IN  {<<a>>, <<b>>, <<a, a>>, <<a, b>>, <<b, a>>, <<b, b>>}

\* The cars CarMap.Update can have left under id: the direction is the one
\* it computed for the trajectory, a car may be gone, and it is counted only
\* if ParkingLot.Update has seen it with the inbound direction.
LotCarInputs(id) ==
    UNION {LET d == IF Len(t) = 1 THEN "STILL" ELSE Direction(t, t[Len(t)])
           IN  {[ID |-> id, Traject |-> t, Dir |-> d, counted |-> c, gone |-> g] :
                   c \in {FALSE, InboundHit(entrance, d)}, g \in BOOLEAN}
           : t \in LotTrajects(id)}

\* the maps of cars over some of the ids 1..MaxLotCars
LotInputs ==
    UNION {{m \in [ids -> UNION {LotCarInputs(id) : id \in ids}] : \A id \in ids : m[id].ID = id}
           : ids \in SUBSET (1..MaxLotCars)}

InitLot ==
    /\ InitTracker(EntranceValues, {100}, {1})
    /\ NoGoroutines

\* cars.Update(centroids) has left the map `cars`; parkingLot.Update is next
LotInput ==
    /\ pc = "frame"
    /\ nFrames = 0
    /\ \E m \in LotInputs :
          /\ cars' = m
          /\ centroids' = [id \in {i \in DOMAIN m : ~m[i].gone} |->
                              NewCentroid(id, m[id].Traject[Len(m[id].Traject)])]
    /\ nextId' = MaxLotCars + 1
    /\ nFrames' = 2
    /\ pc' = "lot"
    /\ UNCHANGED <<entrance, maxDist, maxGone, TotalIn, TotalOut, centerPoints, assoc,
                   inCount, outCount>>
    /\ UNCHANGED pipeVars
    /\ UNCHANGED extractVars
    /\ UNCHANGED mirrorVars

NextLot == LotInput \/ LotUpdate

SpecLot == InitLot /\ [][NextLot]_vars

----------------------------------------------------------------------------
(* The goroutines: main, frameRunner, messageRunner (Pipeline)             *)
(* A frame is its number in capture order.  Every frame main sends points  *)
(* to the one Mat img of main, and every result frameRunner sends is the   *)
(* one Result it allocated before its loop.                                *)

\* default values of the flags -entrance, -max-dist, -max-gone
DefaultEntrance == "b"
DefaultMaxDist == 300
DefaultMaxGone == 30

\* capacity of framesChan, resultsChan and pubChan
ChanCap == 1

\* The center points found in the image of capture n: a car that comes up
\* the frame by 100 pixels per capture and, from the second capture on, a
\* second car outside the gate of the first.
DetectionsOf(n) ==
    IF n <= 1 THEN <<Pt(100, 200)>>
    ELSE <<Pt(100, 300 - 100 * n), Pt(500, 300)>>

InitPipeline ==
    /\ InitTracker({DefaultEntrance}, {DefaultMaxDist}, {DefaultMaxGone})
    /\ InitGoroutines
    /\ NoRects
    /\ NoMirror

\* the objects of frameRunner reached through main's result: none through
\* the Result main allocated itself, whose Centroids is nil
ResultObjects(r) ==
    IF r = "own" THEN {}
    ELSE {"result"} \cup (IF resultCell.Centroids = "centroids" THEN {"centroids"} ELSE {})

\* frameRunner is inside centroids.Update and the call inserts into the map or
\* deletes from it
MapWritePending ==
    /\ frPc = "process"
    /\ \E r \in CentroidMapUpdate(centroids, nextId, DetectionsOf(frImg.n)) :
          DOMAIN r.cm # DOMAIN centroids

\* p.TotalIn++ / p.TotalOut++ recorded per car
AddCounts(f, d) ==
    [id \in (DOMAIN f) \cup (DOMAIN d) |->
        (IF id \in DOMAIN f THEN f[id] ELSE 0) + (IF id \in DOMAIN d THEN d[id] ELSE 0)]

\* vc.Read(&img): a frame, or the failure that leaves the monitor loop
\* (an empty image goes round to Read again and changes nothing)
MainReadUpTo(frames) ==
    /\ ~crashed
    /\ mainPc = "read"
    /\ \/ /\ captured < frames
          /\ captured' = captured + 1
          /\ img' = [n |-> captured + 1, drawn |-> FALSE]
          /\ mainPc' = "send"
       \/ /\ mainPc' = "closeFrames"
          /\ UNCHANGED <<captured, img>>
    /\ UNCHANGED <<publish, frPc, msgPc, framesChan, framesClosed, doneClosed, resultsChan,
                   resultsClosed, pubChan, pubClosed, sigChan, errChan, wg, tick, frFrame,
                   frImg, resultCell, mainResult, processed, accessed, handedOff, ticksTaken,
                   published, crashed>>
    /\ UNCHANGED trackerVars
    /\ UNCHANGED extractVars
    /\ UNCHANGED mirrorVars

MainRead == MainReadUpTo(MaxCaptured)

\* MainSend on a queue without a limit
MainSendUnbounded ==
    /\ ~crashed
    /\ mainPc = "send"
    /\ framesChan' = Append(framesChan, captured)
    /\ mainPc' = "select"
    /\ UNCHANGED <<publish, frPc, msgPc, framesClosed, doneClosed, resultsChan,
                   resultsClosed, pubChan, pubClosed, sigChan, errChan, wg, tick, captured,
                   img, frFrame, frImg, resultCell, mainResult, processed, accessed,
                   handedOff, ticksTaken, published, crashed>>
    /\ UNCHANGED trackerVars
    /\ UNCHANGED extractVars
    /\ UNCHANGED mirrorVars

\* framesChan <- &frame{img: &img}: the frame points to main's img
MainSend ==
    /\ ~crashed
    /\ mainPc = "send"
    /\ Len(framesChan) < ChanCap
    /\ framesChan' = Append(framesChan, captured)
    /\ mainPc' = "select"
    /\ UNCHANGED <<publish, frPc, msgPc, framesClosed, doneClosed, resultsChan,
                   resultsClosed, pubChan, pubClosed, sigChan, errChan, wg, tick, captured,
                   img, frFrame, frImg, resultCell, mainResult, processed, accessed,
                   handedOff, ticksTaken, published, crashed>>
    /\ UNCHANGED trackerVars
    /\ UNCHANGED extractVars
    /\ UNCHANGED mirrorVars

\* the select of the monitor loop: a ready case, or default when none is
MainSelect ==
    /\ ~crashed
    /\ mainPc = "select"
    /\ \/ /\ sigChan = "pending"
          /\ sigChan' = "taken"
          /\ mainPc' = "closeFrames"
          /\ UNCHANGED <<errChan, resultsChan, mainResult>>
       \/ /\ errChan > 0
          /\ errChan' = errChan - 1
          /\ mainPc' = "closeFrames"
          /\ UNCHANGED <<sigChan, resultsChan, mainResult>>
       \/ /\ resultsChan # <<>>
          /\ resultsChan' = Tail(resultsChan)
          /\ mainResult' = "shared"
          /\ mainPc' = "show"
          /\ UNCHANGED <<sigChan, errChan>>
       \/ /\ sigChan # "pending"
          /\ errChan = 0
          /\ resultsChan = <<>>
          /\ mainPc' = "show"
          /\ UNCHANGED <<sigChan, errChan, resultsChan, mainResult>>
    /\ UNCHANGED <<publish, frPc, msgPc, framesChan, framesClosed, doneClosed, resultsClosed,
                   pubChan, pubClosed, wg, tick, captured, img, frFrame, frImg, resultCell,
                   processed, accessed, handedOff, ticksTaken, published, crashed>>
    /\ UNCHANGED trackerVars
    /\ UNCHANGED extractVars
    /\ UNCHANGED mirrorVars

\* PutText(result.Perf), PutText(result), the range over result.Centroids with
\* Circle and PutText, all drawn into img; IMShow; WaitKey, where ESC leaves
\* the monitor loop.  Ranging over the map while frameRunner inserts into it or
\* deletes from it can end the process (fatal error: concurrent map iteration
\* and map write).
MainShow ==
    /\ ~crashed
    /\ mainPc = "show"
    /\ img' = [img EXCEPT !.drawn = TRUE]
    /\ accessed' = accessed \cup ResultObjects(mainResult)
    /\ crashed' \in (IF "centroids" \in ResultObjects(mainResult) /\ MapWritePending
                     THEN BOOLEAN ELSE {FALSE})
    /\ mainPc' \in {"read", "closeFrames"}
    /\ UNCHANGED <<publish, frPc, msgPc, framesChan, framesClosed, doneClosed, resultsChan,
                   resultsClosed, pubChan, pubClosed, sigChan, errChan, wg, tick, captured,
                   frFrame, frImg, resultCell, mainResult, processed, handedOff, ticksTaken,
                   published>>
    /\ UNCHANGED trackerVars
    /\ UNCHANGED extractVars
    /\ UNCHANGED mirrorVars

\* close(framesChan)
MainCloseFrames ==
    /\ ~crashed
    /\ mainPc = "closeFrames"
    /\ framesClosed' = TRUE
    /\ mainPc' = "closeDone"
    /\ UNCHANGED <<publish, frPc, msgPc, framesChan, doneClosed, resultsChan, resultsClosed,
                   pubChan, pubClosed, sigChan, errChan, wg, tick, captured, img, frFrame,
                   frImg, resultCell, mainResult, processed, accessed, handedOff, ticksTaken,
                   published, crashed>>
    /\ UNCHANGED trackerVars
    /\ UNCHANGED extractVars
    /\ UNCHANGED mirrorVars

\* close(doneChan)
MainCloseDone ==
    /\ ~crashed
    /\ mainPc = "closeDone"
    /\ doneClosed' = TRUE
    /\ mainPc' = "drain"
    /\ UNCHANGED <<publish, frPc, msgPc, framesChan, framesClosed, resultsChan,
                   resultsClosed, pubChan, pubClosed, sigChan, errChan, wg, tick, captured,
                   img, frFrame, frImg, resultCell, mainResult, processed, accessed,
                   handedOff, ticksTaken, published, crashed>>
    /\ UNCHANGED trackerVars
    /\ UNCHANGED extractVars
    /\ UNCHANGED mirrorVars

\* for range resultsChan {}
MainDrain ==
    /\ ~crashed
    /\ mainPc = "drain"
    /\ \/ /\ resultsChan # <<>>
          /\ resultsChan' = Tail(resultsChan)
          /\ UNCHANGED mainPc
       \/ /\ resultsChan = <<>>
          /\ resultsClosed
          /\ mainPc' = "wait"
          /\ UNCHANGED resultsChan
    /\ UNCHANGED <<publish, frPc, msgPc, framesChan, framesClosed, doneClosed, resultsClosed,
                   pubChan, pubClosed, sigChan, errChan, wg, tick, captured, img, frFrame,
                   frImg, resultCell, mainResult, processed, accessed, handedOff, ticksTaken,
                   published, crashed>>
    /\ UNCHANGED trackerVars
    /\ UNCHANGED extractVars
    /\ UNCHANGED mirrorVars

\* wg.Wait()
MainWait ==
    /\ ~crashed
    /\ mainPc = "wait"
    /\ wg = 0
    /\ mainPc' = "exit"
    /\ UNCHANGED <<publish, frPc, msgPc, framesChan, framesClosed, doneClosed, resultsChan,
                   resultsClosed, pubChan, pubClosed, sigChan, errChan, wg, tick, captured,
                   img, frFrame, frImg, resultCell, mainResult, processed, accessed,
                   handedOff, ticksTaken, published, crashed>>
    /\ UNCHANGED trackerVars
    /\ UNCHANGED extractVars
    /\ UNCHANGED mirrorVars

\* the operating system delivers SIGINT or SIGTERM to sigChan
Signal ==
    /\ ~crashed
    /\ sigChan = "none"
    /\ mainPc # "exit"
    /\ sigChan' = "pending"
    /\ UNCHANGED <<publish, mainPc, frPc, msgPc, framesChan, framesClosed, doneClosed,
                   resultsChan, resultsClosed, pubChan, pubClosed, errChan, wg, tick,
                   captured, img, frFrame, frImg, resultCell, mainResult, processed,
                   accessed, handedOff, ticksTaken, published, crashed>>
    /\ UNCHANGED trackerVars
    /\ UNCHANGED extractVars
    /\ UNCHANGED mirrorVars

\* frameRunner select, case <-doneChan: close(resultsChan)
FrDone ==
    /\ ~crashed
    /\ frPc = "select"
    /\ doneClosed
    /\ resultsClosed' = TRUE
    /\ frPc' = "closePub"
    /\ UNCHANGED <<publish, mainPc, msgPc, framesChan, framesClosed, doneClosed, resultsChan,
                   pubChan, pubClosed, sigChan, errChan, wg, tick, captured, img, frFrame,
                   frImg, resultCell, mainResult, processed, accessed, handedOff, ticksTaken,
                   published, crashed>>
    /\ UNCHANGED trackerVars
    /\ UNCHANGED extractVars
    /\ UNCHANGED mirrorVars

\* close(pubChan) when it is not nil, return nil; errChan <- ..., wg.Done()
FrReturn ==
    /\ ~crashed
    /\ frPc = "closePub"
    /\ pubClosed' = publish
    /\ frPc' = "returned"
    /\ errChan' = errChan + 1
    /\ wg' = wg - 1
    /\ UNCHANGED <<publish, mainPc, msgPc, framesChan, framesClosed, doneClosed, resultsChan,
                   resultsClosed, pubChan, sigChan, tick, captured, img, frFrame, frImg,
                   resultCell, mainResult, processed, accessed, handedOff, ticksTaken,
                   published, crashed>>
    /\ UNCHANGED trackerVars
    /\ UNCHANGED extractVars
    /\ UNCHANGED mirrorVars

\* frameRunner select, case frame = <-framesChan (the nil frame of a closed,
\* empty framesChan goes round to the select again and changes nothing)
FrReceive ==
    /\ ~crashed
    /\ frPc = "select"
    /\ framesChan # <<>>
    /\ frFrame' = Head(framesChan)
    /\ framesChan' = Tail(framesChan)
    /\ frPc' = "copy"
    /\ UNCHANGED <<publish, mainPc, msgPc, framesClosed, doneClosed, resultsChan,
                   resultsClosed, pubChan, pubClosed, sigChan, errChan, wg, tick, captured,
                   img, frImg, resultCell, mainResult, processed, accessed, handedOff,
                   ticksTaken, published, crashed>>
    /\ UNCHANGED trackerVars
    /\ UNCHANGED extractVars
    /\ UNCHANGED mirrorVars

\* img := gocv.NewMat(); frame.img.CopyTo(&img): what main's img holds now.
\* A copy that runs while main reads into img or draws on it sees a part of
\* the write; of the image only the capture and whether it was drawn on are
\* kept, which the copy taken before or after the write of main gives.
FrCopy ==
    /\ ~crashed
    /\ frPc = "copy"
    /\ frImg' = img
    /\ frPc' = "process"
    /\ UNCHANGED <<publish, mainPc, msgPc, framesChan, framesClosed, doneClosed, resultsChan,
                   resultsClosed, pubChan, pubClosed, sigChan, errChan, wg, tick, captured,
                   img, frFrame, resultCell, mainResult, processed, accessed, handedOff,
                   ticksTaken, published, crashed>>
    /\ UNCHANGED trackerVars
    /\ UNCHANGED extractVars
    /\ UNCHANGED mirrorVars

\* detectCars, extractCenterPoints, centroids.Update, cars.Update,
\* parkingLot.Update, and the four writes to *result; result.Centroids is the
\* map centroids itself, not a copy of it
FrProcess ==
    /\ ~crashed
    /\ frPc = "process"
    /\ \E r \in CentroidMapUpdate(centroids, nextId, DetectionsOf(frImg.n)) :
          LET tracked == CarMapUpdate(cars, r.cm)
              lot == ParkingLotUpdate(tracked)
              carsIn == TotalIn + SumOver(DOMAIN tracked, lot.in)
              carsOut == TotalOut + SumOver(DOMAIN tracked, lot.out)
          IN  /\ centerPoints' = DetectionsOf(frImg.n)
              /\ centroids' = r.cm
              /\ nextId' = r.next
              /\ assoc' = r.assoc
              /\ cars' = lot.cars
              /\ TotalIn' = carsIn
              /\ TotalOut' = carsOut
              /\ inCount' = AddCounts(inCount, lot.in)
              /\ outCount' = AddCounts(outCount, lot.out)
              /\ resultCell' = [Perf |-> frFrame, Centroids |-> "centroids",
                                CarsIn |-> carsIn, CarsOut |-> carsOut]
    /\ nFrames' = nFrames + 1
    /\ processed' = Append(processed, [frame |-> frFrame, image |-> frImg.n])
    /\ frPc' = "sendResult"
    /\ UNCHANGED <<publish, mainPc, msgPc, framesChan, framesClosed, doneClosed, resultsChan,
                   resultsClosed, pubChan, pubClosed, sigChan, errChan, wg, tick, captured,
                   img, frFrame, frImg, mainResult, accessed, handedOff, ticksTaken,
                   published, crashed>>
    /\ UNCHANGED <<entrance, maxDist, maxGone, pc>>
    /\ UNCHANGED extractVars
    /\ UNCHANGED mirrorVars

\* FrSendResult as an overwriting slot: the result replaces what the slot holds
FrSendResultOverwrite ==
    /\ ~crashed
    /\ frPc = "sendResult"
    /\ resultsChan' = <<frFrame>>
    /\ handedOff' = TRUE
    /\ frPc' = IF publish THEN "sendPub" ELSE "select"
    /\ UNCHANGED <<publish, mainPc, msgPc, framesChan, framesClosed, doneClosed,
                   resultsClosed, pubChan, pubClosed, sigChan, errChan, wg, tick, captured,
                   img, frFrame, frImg, resultCell, mainResult, processed, accessed,
                   ticksTaken, published, crashed>>
    /\ UNCHANGED trackerVars
    /\ UNCHANGED extractVars
    /\ UNCHANGED mirrorVars

\* resultsChan <- result: the pointer to the one Result of frameRunner
FrSendResult ==
    /\ ~crashed
    /\ frPc = "sendResult"
    /\ Len(resultsChan) < ChanCap
    /\ resultsChan' = Append(resultsChan, frFrame)
    /\ handedOff' = TRUE
    /\ frPc' = IF publish THEN "sendPub" ELSE "select"
    /\ UNCHANGED <<publish, mainPc, msgPc, framesChan, framesClosed, doneClosed,
                   resultsClosed, pubChan, pubClosed, sigChan, errChan, wg, tick, captured,
                   img, frFrame, frImg, resultCell, mainResult, processed, accessed,
                   ticksTaken, published, crashed>>
    /\ UNCHANGED trackerVars
    /\ UNCHANGED extractVars
    /\ UNCHANGED mirrorVars

\* pubChan <- result
FrSendPub ==
    /\ ~crashed
    /\ frPc = "sendPub"
    /\ Len(pubChan) < ChanCap
    /\ pubChan' = Append(pubChan, frFrame)
    /\ frPc' = "select"
    /\ UNCHANGED <<publish, mainPc, msgPc, framesChan, framesClosed, doneClosed, resultsChan,
                   resultsClosed, pubClosed, sigChan, errChan, wg, tick, captured, img,
                   frFrame, frImg, resultCell, mainResult, processed, accessed, handedOff,
                   ticksTaken, published, crashed>>
    /\ UNCHANGED trackerVars
    /\ UNCHANGED extractVars
    /\ UNCHANGED mirrorVars

\* the ticker puts a value into ticker.C
Tick ==
    /\ ~crashed
    /\ msgPc \in {"select", "tickRecv"}
    /\ ~tick
    /\ tick' = TRUE
    /\ UNCHANGED <<publish, mainPc, frPc, msgPc, framesChan, framesClosed, doneClosed,
                   resultsChan, resultsClosed, pubChan, pubClosed, sigChan, errChan, wg,
                   captured, img, frFrame, frImg, resultCell, mainResult, processed,
                   accessed, handedOff, ticksTaken, published, crashed>>
    /\ UNCHANGED trackerVars
    /\ UNCHANGED extractVars
    /\ UNCHANGED mirrorVars

\* messageRunner select, case <-ticker.C
MsgTick ==
    /\ ~crashed
    /\ msgPc = "select"
    /\ tick
    /\ tick' = FALSE
    /\ ticksTaken' = ticksTaken + 1
    /\ msgPc' = "tickRecv"
    /\ UNCHANGED <<publish, mainPc, frPc, framesChan, framesClosed, doneClosed, resultsChan,
                   resultsClosed, pubChan, pubClosed, sigChan, errChan, wg, captured, img,
                   frFrame, frImg, resultCell, mainResult, processed, accessed, handedOff,
                   published, crashed>>
    /\ UNCHANGED trackerVars
    /\ UNCHANGED extractVars
    /\ UNCHANGED mirrorVars

\* c.Publish(topic, payload) returns to its caller, with a nil error (TRUE) or
\* with a connection or publish error (FALSE)
Publish == BOOLEAN

\* MsgPublish that returns the error of a failed Publish: messageRunner
\* leaves its loop and the error goes to errChan
MsgPublishStopOnError ==
    /\ ~crashed
    /\ msgPc = "tickRecv"
    /\ pubChan # <<>>
    /\ pubChan' = Tail(pubChan)
    /\ \E ok \in Publish :
          /\ published' = Append(published, [sent |-> Head(pubChan), ok |-> ok,
                                             TOTAL_IN |-> resultCell.CarsIn,
                                             TOTAL_OUT |-> resultCell.CarsOut])
          /\ msgPc' = IF ok THEN "select" ELSE "returned"
          /\ errChan' = IF ok THEN errChan ELSE errChan + 1
          /\ wg' = IF ok THEN wg ELSE wg - 1
    /\ accessed' = accessed \cup {"result"}
    /\ UNCHANGED <<publish, mainPc, frPc, framesChan, framesClosed, doneClosed, resultsChan,
                   resultsClosed, pubClosed, sigChan, tick, captured, img, frFrame, frImg,
                   resultCell, mainResult, processed, handedOff, ticksTaken, crashed>>
    /\ UNCHANGED trackerVars
    /\ UNCHANGED extractVars
    /\ UNCHANGED mirrorVars

\* result := <-pubChan; c.Publish(topic, result.ToMQTTMessage()): the message
\* is built from what *result holds now; Publish succeeds or fails, and its
\* error is only printed; the nil a closed pubChan yields makes ToMQTTMessage
\* dereference nil, and the process panics
MsgPublish ==
    /\ ~crashed
    /\ msgPc = "tickRecv"
    /\ \/ /\ pubChan # <<>>
          /\ pubChan' = Tail(pubChan)
          /\ \E ok \in Publish :
                published' = Append(published, [sent |-> Head(pubChan), ok |-> ok,
                                                TOTAL_IN |-> resultCell.CarsIn,
                                                TOTAL_OUT |-> resultCell.CarsOut])
          /\ accessed' = accessed \cup {"result"}
          /\ msgPc' = "select"
          /\ UNCHANGED crashed
       \/ /\ pubChan = <<>>
          /\ pubClosed
          /\ crashed' = TRUE
          /\ UNCHANGED <<pubChan, published, accessed, msgPc>>
    /\ UNCHANGED <<publish, mainPc, frPc, framesChan, framesClosed, doneClosed, resultsChan,
                   resultsClosed, pubClosed, sigChan, errChan, wg, tick, captured, img,
                   frFrame, frImg, resultCell, mainResult, processed, handedOff, ticksTaken>>
    /\ UNCHANGED trackerVars
    /\ UNCHANGED extractVars
    /\ UNCHANGED mirrorVars

\* MsgDiscard that forwards the result it received outside a tick
MsgDiscardForward ==
    /\ ~crashed
    /\ msgPc = "select"
    /\ pubChan # <<>>
    /\ pubChan' = Tail(pubChan)
    /\ published' = Append(published, [sent |-> Head(pubChan), ok |-> TRUE,
                                       TOTAL_IN |-> resultCell.CarsIn,
                                       TOTAL_OUT |-> resultCell.CarsOut])
    /\ UNCHANGED <<publish, mainPc, frPc, msgPc, framesChan, framesClosed, doneClosed,
                   resultsChan, resultsClosed, pubClosed, sigChan, errChan, wg, tick,
                   captured, img, frFrame, frImg, resultCell, mainResult, processed,
                   accessed, handedOff, ticksTaken, crashed>>
    /\ UNCHANGED trackerVars
    /\ UNCHANGED extractVars
    /\ UNCHANGED mirrorVars

\* messageRunner select, case <-pubChan: the value is discarded (the nil of
\* a closed, empty pubChan is discarded too and changes nothing)
MsgDiscard ==
    /\ ~crashed
    /\ msgPc = "select"
    /\ pubChan # <<>>
    /\ pubChan' = Tail(pubChan)
    /\ UNCHANGED <<publish, mainPc, frPc, msgPc, framesChan, framesClosed, doneClosed,
                   resultsChan, resultsClosed, pubClosed, sigChan, errChan, wg, tick,
                   captured, img, frFrame, frImg, resultCell, mainResult, processed,
                   accessed, handedOff, ticksTaken, published, crashed>>
    /\ UNCHANGED trackerVars
    /\ UNCHANGED extractVars
    /\ UNCHANGED mirrorVars

\* messageRunner select, case <-doneChan: return nil; errChan <- ..., wg.Done()
MsgDone ==
    /\ ~crashed
    /\ msgPc = "select"
    /\ doneClosed
    /\ msgPc' = "returned"
    /\ errChan' = errChan + 1
    /\ wg' = wg - 1
    /\ UNCHANGED <<publish, mainPc, frPc, framesChan, framesClosed, doneClosed, resultsChan,
                   resultsClosed, pubChan, pubClosed, sigChan, tick, captured, img, frFrame,
                   frImg, resultCell, mainResult, processed, accessed, handedOff, ticksTaken,
                   published, crashed>>
    /\ UNCHANGED trackerVars
    /\ UNCHANGED extractVars
    /\ UNCHANGED mirrorVars

MainStep ==
    \/ MainRead \/ MainSend \/ MainSelect \/ MainShow
    \/ MainCloseFrames \/ MainCloseDone \/ MainDrain \/ MainWait

FrameRunnerStep ==
    \/ FrDone \/ FrReturn \/ FrReceive \/ FrCopy \/ FrProcess \/ FrSendResult \/ FrSendPub

MessageRunnerStep == MsgTick \/ MsgPublish \/ MsgDiscard \/ MsgDone

NextPipeline == MainStep \/ FrameRunnerStep \/ MessageRunnerStep \/ Signal \/ Tick

\* Every goroutine that can run does run, and a select whose doneChan case
\* is ready at every visit takes it in the end (the runtime picks among the
\* ready cases at random).  Signals and ticks come as they please.
Fairness ==
    /\ WF_vars(MainStep)
    /\ WF_vars(FrReturn \/ FrReceive \/ FrCopy \/ FrProcess \/ FrSendResult \/ FrSendPub)
    /\ SF_vars(FrDone)
    /\ WF_vars(MsgTick \/ MsgPublish \/ MsgDiscard)
    /\ SF_vars(MsgDone)

Pipeline == InitPipeline /\ [][NextPipeline]_vars /\ Fairness

\* The pipeline with a video source that delivers MaxEnqueued frames and
\* with no signal arriving: the monitor loop is left when Read fails, which
\* it can at every round (PipelineLong)
MainReadLong == MainReadUpTo(MaxEnqueued)

NextLong ==
    \/ MainReadLong \/ MainSend \/ MainSelect \/ MainShow
    \/ MainCloseFrames \/ MainCloseDone \/ MainDrain \/ MainWait
    \/ FrameRunnerStep \/ MessageRunnerStep \/ Tick

PipelineLong == InitPipeline /\ [][NextLong]_vars

----------------------------------------------------------------------------
(* extractCenterPoints (SpecExtract) *)

\* width and height pixel clips
wClip == 200
hClip == 350

\* image.Rectangle.Empty
RectEmpty(r) == r.Min.X >= r.Max.X \/ r.Min.Y >= r.Max.Y

\* image.Rectangle.In: an empty rectangle is in every rectangle
RectIn(r, s) ==
    \/ RectEmpty(r)
    \/ /\ s.Min.X <= r.Min.X /\ r.Max.X <= s.Max.X
       /\ s.Min.Y <= r.Min.Y /\ r.Max.Y <= s.Max.Y

\* image.Rectangle.Size
RectSize(r) == Pt(r.Max.X - r.Min.X, r.Max.Y - r.Min.Y)

\* TooSmall that also rejects a width of 80 and a height of 50
TooSmallStrict(width, height) == width <= 80 \/ height <= 50

\* width < 80 || height < 50
TooSmall(width, height) == width < 80 \/ height < 50

\* ClipWidth that leaves the width as it is
ClipWidthNone(r, width, mat) == width

\* the clipping of width
ClipWidth(r, width, mat) ==
    IF width > wClip
    THEN (IF r.Min.X + wClip < mat.Cols THEN wClip ELSE width)
    ELSE IF r.Min.X + width > mat.Cols THEN mat.Cols - r.Min.X
    ELSE width

\* the clipping of height
ClipHeight(r, height, mat) ==
    IF height > hClip
    THEN (IF r.Min.Y + hClip < mat.Rows THEN hClip ELSE height)
    ELSE IF r.Min.Y + height > mat.Rows THEN mat.Rows - r.Min.Y
    ELSE height

\* the two `continue` statements of the loop
Skipped(r, mat) ==
    \/ ~RectIn(r, Rect(0, 0, mat.Cols, mat.Rows))
    \/ TooSmall(RectSize(r).X, RectSize(r).Y)

\* the center point appended for r; the sizes are positive, so the integer
\* division of Go is \div
CenterPoint(r, mat) ==
    Pt(r.Min.X + (ClipWidth(r, RectSize(r).X, mat) \div 2),
       r.Min.Y + (ClipHeight(r, RectSize(r).Y, mat) \div 2))

RECURSIVE extractCenterPoints(_, _)
extractCenterPoints(rects, mat) ==
    IF rects = <<>> THEN <<>>
    ELSE LET rest == extractCenterPoints(Tail(rects), mat)
         IN  IF Skipped(Head(rects), mat) THEN rest
             ELSE <<CenterPoint(Head(rects), mat)>> \o rest

\* detectCars has returned the rectangles carRects for a frame of size imgSize
InitExtract ==
    /\ InitTracker({DefaultEntrance}, {DefaultMaxDist}, {DefaultMaxGone})
    /\ InitGoroutines
    /\ publish = FALSE
    /\ carRects \in RectLists
    /\ imgSize \in FrameSizes
    /\ NoMirror

\* centerPoints := extractCenterPoints(carRects, &img)
Extract ==
    /\ pc = "frame"
    /\ centerPoints' = extractCenterPoints(carRects, imgSize)
    /\ pc' = "extracted"
    /\ UNCHANGED <<entrance, maxDist, maxGone, centroids, cars, TotalIn, TotalOut, nextId,
                   nFrames, assoc, inCount, outCount>>
    /\ UNCHANGED pipeVars
    /\ UNCHANGED extractVars
    /\ UNCHANGED mirrorVars

NextExtract == Extract

SpecExtract == InitExtract /\ [][NextExtract]_vars

----------------------------------------------------------------------------
(* Properties of CentroidMap.Update (SpecCentroids) *)

Abs(x) == IF x < 0 THEN -x ELSE x

\* the step is a call of CentroidMap.Update
IsUpdate == nFrames' = nFrames + 1

\* the centroids the call associated with a point
Associated == {assoc'[k].id : k \in 1..Len(assoc')}

\* C1: a centroid that a call of Update does not match stays, with its
\* position and goneCount + 1, as long as that is at most maxGone, and is
\* removed by the call that takes goneCount past maxGone; a matched or new
\* centroid has goneCount 0, so goneCount counts the consecutive unmatched
\* calls and removal happens at exactly the (maxGone+1)-th of them.
C1_EvictedAfterMaxGonePlusOne ==
    [][IsUpdate =>
        /\ \A id \in (DOMAIN centroids) \ Associated :
              IF centroids[id].goneCount + 1 <= maxGone
              THEN /\ id \in DOMAIN centroids'
                   /\ centroids'[id] = [centroids[id] EXCEPT !.goneCount = @ + 1]
              ELSE id \notin DOMAIN centroids'
        /\ \A id \in (DOMAIN centroids') \ ((DOMAIN centroids) \ Associated) :
              centroids'[id].goneCount = 0]_vars

\* a centroid was removed by its second unmatched call with maxGone = 1, the
\* calls carrying points that did not match it
C1_Witness ==
    /\ maxGone = 1
    /\ nFrames = 3
    /\ centerPoints # <<>>
    /\ nextId = 3
    /\ DOMAIN centroids = {2}

\* C5: every association joins a point and a centroid that, when the
\* association is made, are at most 50 apart on X for entrance t or b and at
\* most 70 apart on Y for entrance l or r.
C5_GateNeverCrossed ==
    \A k \in 1..Len(assoc) :
        /\ entrance \in {"t", "b"} => Abs(assoc[k].from.X - assoc[k].to.X) <= 50
        /\ entrance \in {"l", "r"} => Abs(assoc[k].from.Y - assoc[k].to.Y) <= 70

\* with maxDist 100 the point (53,74) was not associated with the centroid at
\* (0,0), 91 away and outside the gate, and a point on the gate was
C5_Witness ==
    /\ entrance = "b"
    /\ maxDist = 100
    /\ centerPoints = <<Pt(53, 74), Pt(3, 4)>>
    /\ Len(assoc) = 1
    /\ assoc[1].from = Pt(0, 0)
    /\ assoc[1].to = Pt(3, 4)
    /\ \E id \in DOMAIN centroids : centroids[id].Point = Pt(53, 74)

\* the gate of the configured entrance, between two positions
InsideGate(a, b) ==
    /\ entrance \in {"t", "b"} => Abs(a.X - b.X) <= 50
    /\ entrance \in {"l", "r"} => Abs(a.Y - b.Y) <= 70

\* the centroids of cm inside the gate of p and within maxDist of it
Reachable(cm, p) ==
    {id \in DOMAIN cm : InsideGate(cm[id].Point, p) /\ DistSq(cm[id].Point, p) <= maxDist * maxDist}

\* C6: after Update on a non-empty tracker, every point with a centroid
\* inside the gate and within maxDist is the position of a nearest such
\* centroid, which has goneCount 0, and no new centroid stands for the point.
C6_MatchedToNearest ==
    [][(IsUpdate /\ DOMAIN centroids # {}) =>
        \A i \in 1..Len(centerPoints') :
            LET p == centerPoints'[i]
                near == Reachable(centroids, p)
            IN  near # {} =>
                  /\ \E id \in near :
                        /\ \A o \in near : DistSq(centroids[id].Point, p) <= DistSq(centroids[o].Point, p)
                        /\ id \in DOMAIN centroids'
                        /\ centroids'[id].Point = p
                        /\ centroids'[id].goneCount = 0
                  /\ \A id \in (DOMAIN centroids') \ (DOMAIN centroids) :
                        centroids'[id].Point # p]_vars

\* C7: Update with no points adds no centroid, removes exactly the centroids
\* whose goneCount + 1 exceeds maxGone and changes nothing of the others but
\* goneCount, which grows by one.
C7_EmptyUpdateOnlyAges ==
    [][(IsUpdate /\ centerPoints' = <<>>) =>
        /\ nextId' = nextId
        /\ DOMAIN centroids' = {id \in DOMAIN centroids : centroids[id].goneCount + 1 <= maxGone}
        /\ \A id \in DOMAIN centroids' :
              centroids'[id] = [centroids[id] EXCEPT !.goneCount = @ + 1]]_vars

\* an Update with no points aged one centroid and removed another
C7_Witness ==
    /\ centerPoints = <<>>
    /\ nFrames = 3
    /\ nextId = 3
    /\ DOMAIN centroids = {2}
    /\ centroids[2].goneCount = 1

----------------------------------------------------------------------------
(* Properties of the frame cycle (Spec) *)

Count(f, id) == IF id \in DOMAIN f THEN f[id] ELSE 0

\* C2: a car that is counted, or for which TotalIn was incremented before, is
\* the cause of no further increment of TotalIn or TotalOut.
C2_CountedOnce ==
    [][\A id \in (DOMAIN cars) \cup (DOMAIN inCount) :
          ((id \in DOMAIN cars /\ cars[id].counted) \/ Count(inCount, id) >= 1) =>
              /\ Count(inCount', id) = Count(inCount, id)
              /\ Count(outCount', id) = Count(outCount, id)]_vars

\* a counted car read UP again in a later cycle and went through
\* ParkingLot.Update once more
C2_Witness ==
    /\ entrance = "b"
    /\ pc = "frame"
    /\ 1 \in DOMAIN cars
    /\ cars[1].Traject = <<Pt(51, 71), Pt(1, 1), Pt(0, 0)>>
    /\ cars[1].Dir = "UP"
    /\ cars[1].counted
    /\ inCount[1] = 1
    /\ TotalIn = 1

\* Y falls from every position of the trajectory to the next
YDecreasing(t) == \A k \in 1..(Len(t) - 1) : t[k + 1].Y < t[k].Y

\* the direction read in the frame that brought position k
DirAt(t, k) == Direction(SubSeq(t, 1, k), t[k])

\* C3: entrance b, one object, present, Y decreasing: ParkingLot.Update
\* increments TotalIn in the cycle in which the direction reads UP for the
\* first time and in no other; from the third frame on TotalIn is 1.
C3_EnteredOnceAtFirstUp ==
    [][(/\ pc = "lot"
        /\ entrance = "b"
        /\ nextId = 2
        /\ 1 \in DOMAIN cars
        /\ ~cars[1].gone
        /\ Len(cars[1].Traject) >= 2
        /\ YDecreasing(cars[1].Traject)) =>
            LET t == cars[1].Traject
                firstUp == /\ cars[1].Dir = "UP"
                           /\ \A k \in 2..(Len(t) - 1) : DirAt(t, k) # "UP"
            IN  /\ TotalIn' = TotalIn + (IF firstUp THEN 1 ELSE 0)
                /\ Len(t) >= 3 => TotalIn' = 1]_vars

\* the object came down from Y = 71 over three frames and was counted once
C3_Witness ==
    /\ entrance = "b"
    /\ pc = "frame"
    /\ nextId = 2
    /\ 1 \in DOMAIN cars
    /\ cars[1].Traject = <<Pt(51, 71), Pt(1, 1), Pt(0, 0)>>
    /\ ~cars[1].gone
    /\ TotalIn = 1

\* the object of the scenario, counted as entered, has disappeared with DOWN
\* as its last direction, and ParkingLot.Update is about to run
EnteredThenGoneDown ==
    /\ pc = "lot"
    /\ entrance = "b"
    /\ nextId = 2
    /\ 1 \in DOMAIN cars
    /\ cars[1].counted
    /\ cars[1].gone
    /\ cars[1].Dir = "DOWN"

\* C4 as stated: the disappearance increments TotalOut and removes the object.
C4_ExitCountedAfterEntry ==
    [][EnteredThenGoneDown => (TotalOut' = TotalOut + 1 /\ 1 \notin DOMAIN cars')]_vars

\* C4 amended: the disappearance removes the object and leaves TotalOut and
\* TotalIn as they were.
C4_EnteredCarOnlyRemoved ==
    [][EnteredThenGoneDown =>
        /\ 1 \notin DOMAIN cars'
        /\ TotalOut' = TotalOut
        /\ TotalIn' = TotalIn
        /\ Count(outCount', 1) = 0]_vars

C4_Witness == EnteredThenGoneDown /\ Len(cars[1].Traject) = 3 /\ TotalIn = 1

\* the coordinate on the movement axis grows from every position to the next
AxisIncreasing(t) ==
    \A k \in 1..(Len(t) - 1) :
        IF entrance \in {"l", "r"} THEN t[k + 1].X > t[k].X ELSE t[k + 1].Y > t[k].Y

\* C8: a car whose trajectory has two or more positions and grows on the
\* movement axis in every frame has direction DOWN (t, b) or RIGHT (l, r).
C8_IncreasingReadsPositive ==
    \A id \in DOMAIN cars :
        (Len(cars[id].Traject) >= 2 /\ AxisIncreasing(cars[id].Traject)) =>
            cars[id].Dir = (IF entrance \in {"l", "r"} THEN "RIGHT" ELSE "DOWN")

\* entrance b, a trajectory of three positions with growing Y, read DOWN
C8_Witness ==
    /\ entrance = "b"
    /\ \E id \in DOMAIN cars :
          /\ cars[id].Traject = <<Pt(0, 0), Pt(1, 1), Pt(51, 71)>>
          /\ cars[id].Dir = "DOWN"

\* C9: no step lowers TotalIn or TotalOut, and only parkingLot.Update
\* changes them.
C9_CountersMonotone ==
    [][/\ TotalIn' >= TotalIn
       /\ TotalOut' >= TotalOut
       /\ pc # "lot" => (TotalIn' = TotalIn /\ TotalOut' = TotalOut)]_vars

\* TotalOut has grown in an earlier cycle, and CentroidMap.Update and
\* CarMap.Update ran again afterwards
C9_Witness ==
    /\ TotalOut >= 1
    /\ nFrames = 4
    /\ pc = "lot"

----------------------------------------------------------------------------
(* Properties of the shutdown (Pipeline) *)

\* every goroutine has returned and main is past wg.Wait()
AllReturned ==
    /\ mainPc = "exit"
    /\ frPc = "returned"
    /\ msgPc \in {"returned", "off"}
    /\ resultsClosed

\* C10: once main has closed framesChan and doneChan, frameRunner returns
\* and closes resultsChan, messageRunner returns, the drain loop ends and
\* wg.Wait() returns - with publish on or off, whatever the channels hold.
C10_ShutdownTerminates == doneClosed ~> AllReturned

----------------------------------------------------------------------------
(* Properties of the running pipeline (Pipeline) *)

\* C11: the captures frameRunner processes come in the order in which main
\* enqueued them, none before an earlier one and none twice: the image of
\* every processing is a later capture than the image of the one before.
C11_ProcessedInCaptureOrder ==
    \A j, k \in 1..Len(processed) :
        j < k => processed[j].image < processed[k].image

\* the step writes the object of frameRunner called o
Written(o) ==
    \/ o = "result" /\ resultCell' # resultCell
    \/ o = "centroids" /\ centroids' # centroids

\* C12: main and messageRunner never read the map centroids that
\* frameRunner's trackers work on, and what they have read of frameRunner's
\* objects frameRunner does not write afterwards.
C12_TrackerStateConfined ==
    [][/\ "centroids" \notin accessed'
       /\ \A o \in accessed : ~Written(o)]_vars

\* what a consumer holding frameRunner's result sees through it
Observed ==
    [Perf |-> resultCell.Perf,
     Centroids |-> IF resultCell.Centroids = "centroids" THEN centroids ELSE EmptyMap,
     CarsIn |-> resultCell.CarsIn,
     CarsOut |-> resultCell.CarsOut]

\* C13: once frameRunner has sent a result on resultsChan or pubChan, no
\* step changes the Perf, Centroids, CarsIn or CarsOut seen through it.
C13_ResultImmutableAfterHandOff ==
    [][handedOff => Observed' = Observed]_vars

\* frameRunner has its next result ready while the slot still holds one
SlotHeld ==
    /\ ~crashed
    /\ frPc = "sendResult"
    /\ Len(resultsChan) = ChanCap

\* C14 as stated: with the slot still holding a result, frameRunner's send
\* goes through at once.
C14_SlotLatestWins == SlotHeld => ENABLED FrSendResult

\* C14 amended: with the slot still holding a result, frameRunner stays in
\* resultsChan <- result and takes no frame; the slot changes only by main
\* taking the held result, which is never replaced.
C14_SlotBlocksSender ==
    [][SlotHeld =>
        /\ frPc' = "sendResult"
        /\ frFrame' = frFrame
        /\ processed' = processed
        /\ resultsChan' \in {resultsChan, Tail(resultsChan)}]_vars

\* the result of frame 1 is in the slot, main is in its loop, and
\* frameRunner has come to send the result of frame 2
C14_Witness ==
    /\ SlotHeld
    /\ resultsChan = <<1>>
    /\ frFrame = 2
    /\ mainPc = "show"

\* C15: Publish is called only by the tick case, once per tick taken; a
\* result messageRunner receives in its select, outside a tick, is dropped;
\* so the messages published are never more than the ticks taken.
C15_PublishOnlyOnTick ==
    [][/\ published' # published =>
            /\ msgPc = "tickRecv"
            /\ msgPc' = "select"
            /\ Len(published') = Len(published) + 1
       /\ (msgPc = "select" /\ pubChan' # pubChan /\ frPc' = frPc) => published' = published
       /\ Len(published') <= ticksTaken']_vars

\* the result of frame 1 was dropped between ticks and the result of frame 2
\* published on the one tick taken
C15_Witness ==
    /\ Len(published) = 1
    /\ published[1].sent = 2
    /\ ticksTaken = 1

----------------------------------------------------------------------------
(* Further properties of CentroidMap.Update (SpecCentroids) *)

\* C16: within one Update no centroid is associated with two points.
C16_OnePointPerCentroid ==
    \A j, k \in 1..Len(assoc) : j # k => assoc[j].id # assoc[k].id

----------------------------------------------------------------------------
(* Further properties of the frame cycle (Spec) *)

\* the trajectory without its last position
Previous(t) == SubSeq(t, 1, Len(t) - 1)

\* C17: for a car tracked over two or more frames, with m the mean of the
\* previous positions on the movement axis and p the coordinate of the last
\* one, the direction is DOWN/RIGHT when p > m, UP/LEFT when p < m and STILL
\* when p = m (p and m are compared through p * n and the sum of the n
\* previous coordinates).
C17_DirectionFromPreviousMean ==
    \A id \in DOMAIN cars :
        LET t == cars[id].Traject
            n == Len(t) - 1
            p == AxisValue(t[Len(t)])
            sum == AxisSum(Previous(t))
        IN  n >= 1 =>
              cars[id].Dir = (IF p * n > sum THEN (IF HorizontalMove THEN "RIGHT" ELSE "DOWN")
                              ELSE IF p * n < sum THEN (IF HorizontalMove THEN "LEFT" ELSE "UP")
                              ELSE "STILL")

----------------------------------------------------------------------------
(* Properties of ParkingLot.Update (SpecLot) *)

\* the table of the zone counter
InboundOf(e) ==
    CASE e = "t" -> "DOWN" [] e = "b" -> "UP" [] e = "l" -> "RIGHT" [] e = "r" -> "LEFT"

OutboundOf(e) ==
    CASE e = "t" -> "UP" [] e = "b" -> "DOWN" [] e = "l" -> "LEFT" [] e = "r" -> "RIGHT"

----------------------------------------------------------------------------
(* Properties of CarMap.Update (Spec) *)

\* C20: in CarMap.Update a car whose id is not in the centroid map is
\* removed if it was gone already and its direction is STILL; otherwise it
\* stays, gone, with trajectory, direction and counted as they were.
C20_DisappearanceRule ==
    [][pc = "cars" =>
        \A id \in (DOMAIN cars) \ (DOMAIN centroids) :
            IF cars[id].gone /\ cars[id].Dir = "STILL"
            THEN id \notin DOMAIN cars'
            ELSE /\ id \in DOMAIN cars'
                 /\ cars'[id] = [cars[id] EXCEPT !.gone = TRUE]]_vars

\* entrance B: a car went up over two frames and disappeared; the third
\* CarMap.Update marked it gone and the fourth, finding it gone with direction
\* UP, left it as it was
C20_Witness ==
    /\ entrance = "B"
    /\ pc = "lot"
    /\ nFrames = 4
    /\ DOMAIN centroids = {}
    /\ maxGone = 0
    /\ DOMAIN cars = {1}
    /\ cars[1].gone
    /\ cars[1].Dir = "UP"
    /\ Len(cars[1].Traject) = 2

----------------------------------------------------------------------------
(* The distance cut-off of CentroidMap.Update (SpecCentroids) *)

\* the points of the call that were associated with a centroid
MappedPoints == {assoc'[k].i : k \in 1..Len(assoc')}

\* the centroids the call created at position p
SpawnedAt(p) ==
    {id \in (DOMAIN centroids') \ (DOMAIN centroids) : centroids'[id].Point = p}

\* C21: in an Update on a non-empty tracker, a point that has no centroid of
\* the tracker inside the gate, or none within maxDist, is associated with no
\* centroid and gets exactly one new centroid, with an identifier not used
\* before, at the point and with goneCount 0; a point whose nearest gated
\* centroid is exactly maxDist away is associated.
C21_CutOffAndSpawn ==
    [][(IsUpdate /\ DOMAIN centroids # {}) =>
        \A i \in 1..Len(centerPoints') :
            LET p == centerPoints'[i]
                near == Reachable(centroids, p)
            IN  /\ near = {} =>
                      /\ i \notin MappedPoints
                      /\ Cardinality(SpawnedAt(p)) = 1
                      /\ \A id \in SpawnedAt(p) :
                            id >= nextId /\ centroids'[id].goneCount = 0
                /\ (/\ near # {}
                    /\ \A id \in near : DistSq(centroids[id].Point, p) = maxDist * maxDist) =>
                      i \in MappedPoints]_vars

----------------------------------------------------------------------------
(* Objects that never move (SpecLive) *)

\* the identifiers uuid.New() can have handed out
CarIds == 1..(MaxLiveFrames * MaxLiveDetections)

\* the direction read STILL in every frame of the car's life
AlwaysStill(car) ==
    \A k \in 2..Len(car.Traject) : DirAt(car.Traject, k) = "STILL"

\* C22: a car whose direction was STILL in every frame is the cause of no
\* increment of TotalIn or TotalOut, and once its centroid is no longer in
\* the centroid map the car is eventually removed from the map of cars.
C22_StillNeverCounted ==
    /\ [](\A id \in DOMAIN cars :
             AlwaysStill(cars[id]) => (Count(inCount, id) = 0 /\ Count(outCount, id) = 0))
    /\ \A id \in CarIds :
          (id \in DOMAIN cars /\ AlwaysStill(cars[id]) /\ id \notin DOMAIN centroids)
              ~> (id \notin DOMAIN cars /\ Count(inCount, id) = 0 /\ Count(outCount, id) = 0)

\* maxGone 0: the car seen in the first frame only lost its centroid in the
\* second, was marked gone, and was removed by the CarMap.Update of a later
\* frame without detections, counted neither in nor out
C22_Witness ==
    /\ maxGone = 0
    /\ nFrames = MaxLiveFrames
    /\ pc = "lot"
    /\ nextId = 2
    /\ DOMAIN cars = {}
    /\ 1 \in DOMAIN inCount
    /\ inCount[1] = 0
    /\ outCount[1] = 0

----------------------------------------------------------------------------
(* Entry while present, exit once gone (SpecLot) *)

\* the cars for which the step executed TotalIn++ / TotalOut++
CountedIn == {id \in DOMAIN cars : Count(inCount', id) > Count(inCount, id)}
CountedOut == {id \in DOMAIN cars : Count(outCount', id) > Count(outCount, id)}

\* C23: every increment of TotalIn is for a car that is not gone and every
\* increment of TotalOut for a car that is gone; a car that is present and
\* moves in the outbound direction leaves TotalOut as it is.
C23_EntryPresentExitGone ==
    [][/\ \A id \in CountedIn : ~cars[id].gone
       /\ \A id \in CountedOut : cars[id].gone
       /\ \A id \in DOMAIN cars :
             (~cars[id].gone /\ cars[id].Dir = OutboundOf(entrance)) => id \notin CountedOut
       /\ TotalIn' = TotalIn + Cardinality(CountedIn)
       /\ TotalOut' = TotalOut + Cardinality(CountedOut)]_vars

\* entrance b: of two cars going DOWN the one that is gone was counted out
\* and the one still present was not
C23_Witness ==
    /\ entrance = "b"
    /\ pc = "frame"
    /\ nFrames = 2
    /\ TotalOut = 1
    /\ TotalIn = 0
    /\ DOMAIN cars = {1}
    /\ ~cars[1].gone /\ ~cars[1].counted /\ cars[1].Dir = "DOWN"
    /\ Count(outCount, 1) = 0
    /\ Count(outCount, 2) = 1

----------------------------------------------------------------------------
(* Properties of extractCenterPoints (SpecExtract) *)

\* the box lies fully inside the frame and is at least 80 wide and 50 high
Surviving(r) ==
    /\ 0 <= r.Min.X /\ r.Max.X <= imgSize.Cols
    /\ 0 <= r.Min.Y /\ r.Max.Y <= imgSize.Rows
    /\ r.Max.X - r.Min.X >= 80
    /\ r.Max.Y - r.Min.Y >= 50

\* the positions of the surviving boxes in carRects
SurvivingAt == {i \in 1..Len(carRects) : Surviving(carRects[i])}

\* the k-th surviving box, in input order
KthSurviving(k) ==
    carRects[CHOOSE i \in SurvivingAt : Cardinality({j \in SurvivingAt : j < i}) = k - 1]

\* the size the rule of C24 gives for a size of s starting at `origin`, with
\* ceiling `clip` in a frame that is `limit` long
ClippedSize(origin, s, clip, limit) ==
    IF s <= clip THEN s
    ELSE IF origin + clip < limit THEN clip
    ELSE limit - origin

\* C24: the point emitted for the k-th surviving box (left, top, w, h) is
\* (left + w' div 2, top + h' div 2), w' being w when w <= 200, 200 when
\* w > 200 and left + 200 < cols, and cols - left otherwise; h' likewise with
\* 350 and rows.
C24_ClippedCenter ==
    pc = "extracted" =>
        \A k \in 1..Len(centerPoints) :
            k <= Cardinality(SurvivingAt) =>
                LET r == KthSurviving(k)
                    w == ClippedSize(r.Min.X, r.Max.X - r.Min.X, 200, imgSize.Cols)
                    h == ClippedSize(r.Min.Y, r.Max.Y - r.Min.Y, 350, imgSize.Rows)
                IN  centerPoints[k] = Pt(r.Min.X + (w \div 2), r.Min.Y + (h \div 2))

\* a box of 241 x 401 against the right and bottom edges was clipped to
\* 200 x 350, and a box of 81 x 50 was not clipped
C24_Witness ==
    /\ pc = "extracted"
    /\ carRects = <<Rect(399, 79, 640, 480), Rect(101, 11, 182, 61)>>
    /\ centerPoints = <<Pt(499, 254), Pt(141, 36)>>

\* C25: extractCenterPoints emits exactly one point for every box that lies
\* fully inside the frame and is at least 80 wide and 50 high, in input
\* order (the k-th point lies in the k-th such box), and none for any other.
C25_FilteredInOrder ==
    pc = "extracted" =>
        /\ Len(centerPoints) = Cardinality(SurvivingAt)
        /\ \A k \in 1..Len(centerPoints) :
              k <= Cardinality(SurvivingAt) =>
                  LET r == KthSurviving(k)
                  IN  /\ r.Min.X <= centerPoints[k].X /\ centerPoints[k].X <= r.Max.X
                      /\ r.Min.Y <= centerPoints[k].Y /\ centerPoints[k].Y <= r.Max.Y

\* of a box 79 wide, a box 80 wide and 50 high, and a box reaching one pixel
\* over the right edge, only the second gave a point
C25_Witness ==
    /\ pc = "extracted"
    /\ Len(carRects) = 2
    /\ carRects[1] \in {Rect(0, 11, 79, 61), Rect(440, 11, 641, 61)}
    /\ carRects[2] = Rect(0, 11, 80, 61)
    /\ centerPoints = <<Pt(40, 36)>>

----------------------------------------------------------------------------
(* Backpressure (PipelineLong) *)

\* the frames main has sent to framesChan: every capture but the one main
\* is still waiting to send
Enqueued == IF mainPc = "send" THEN captured - 1 ELSE captured

\* frameRunner holds a frame it has received and not yet finished with
InProcess == frPc \in {"copy", "process", "sendResult", "sendPub"}

\* the frames frameRunner has finished with: processed, and their results
\* sent
Completed ==
    Len(processed) - (IF frPc \in {"sendResult", "sendPub"} THEN 1 ELSE 0)

\* C26: framesChan never holds more than one frame, and the frames main has
\* enqueued are those frameRunner has finished plus the one it is working
\* on, if any, plus the one in the queue, if any: never more than two ahead.
C26_Backpressure ==
    /\ Len(framesChan) <= 1
    /\ Enqueued = Completed + (IF InProcess THEN 1 ELSE 0) + Len(framesChan)
    /\ Enqueued - Completed <= 2

\* main waits to send its third frame: the second is in the queue and
\* frameRunner is still working on the first
C26_Witness ==
    /\ mainPc = "send"
    /\ captured = 3
    /\ framesChan = <<2>>
    /\ frPc = "process"
    /\ frFrame = 1
    /\ Len(processed) = 0

----------------------------------------------------------------------------
(* The stored direction (Spec) *)

\* the direction read by comparing the last position of t with the mean of
\* all its positions on the movement axis (p against sum / n, through p * n
\* and sum)
MeanDirection(t) ==
    LET n == Len(t)
        p == AxisValue(t[n])
        sum == AxisSum(t)
    IN  IF p * n > sum THEN (IF HorizontalMove THEN "RIGHT" ELSE "DOWN")
        ELSE IF p * n < sum THEN (IF HorizontalMove THEN "LEFT" ELSE "UP")
        ELSE "STILL"

\* C27: the direction stored for every tracked car is the one obtained by
\* comparing the last position of its trajectory with the mean over the
\* whole trajectory on the movement axis, STILL for a single position.
C27_DirectionFromTrajectoryMean ==
    \A id \in DOMAIN cars : cars[id].Dir = MeanDirection(cars[id].Traject)

----------------------------------------------------------------------------
(* The image of an enqueued frame (Pipeline) *)

\* a frame is enqueued and frameRunner has not finished copying its image
CopyPending == framesChan # <<>> \/ frPc = "copy"

\* the step is main writing to its img: vc.Read(&img), or PutText and Circle
ImgWritten ==
    \/ captured' # captured
    \/ mainPc = "show" /\ mainPc' # "show"

\* C28: from the moment a frame is enqueued until frameRunner has copied its
\* image, main neither reads the next capture into the image nor draws on it.
C28_ImageStableUntilCopied ==
    [][CopyPending => ~ImgWritten]_vars

----------------------------------------------------------------------------
(* A failing Publish (Pipeline) *)

\* the step is a call of Publish that failed
PublishFailed ==
    /\ Len(published') = Len(published) + 1
    /\ ~published'[Len(published')].ok

\* C29: a failing Publish leaves messageRunner in its loop, sends nothing on
\* errChan, ends no goroutine and touches neither frameRunner nor main, whose
\* channels stay as they are; every Publish, after a failure too, is for a
\* result newly received from pubChan, never for one handed to Publish
\* before.
C29_PublishFailureCarriesOn ==
    [][/\ PublishFailed =>
            /\ msgPc' = "select"
            /\ errChan' = errChan
            /\ wg' = wg
            /\ ~crashed'
            /\ <<mainPc', frPc', framesChan', resultsChan'>> = <<mainPc, frPc, framesChan, resultsChan>>
            /\ <<framesClosed', doneClosed', resultsClosed', pubClosed'>>
                   = <<framesClosed, doneClosed, resultsClosed, pubClosed>>
       /\ Len(published') = Len(published) + 1 =>
            /\ pubChan # <<>>
            /\ pubChan' = Tail(pubChan)
            /\ published'[Len(published')].sent = Head(pubChan)
            /\ \A k \in 1..Len(published) : published[k].sent < Head(pubChan)]_vars

\* the Publish of the first tick failed, and the second tick published the
\* result of frame 2 while the capture loop was still running
C29_Witness ==
    /\ Len(published) = 2
    /\ ~published[1].ok
    /\ published[1].sent = 1
    /\ published[2].ok
    /\ published[2].sent = 2
    /\ ticksTaken = 2
    /\ msgPc = "select"
    /\ errChan = 0
    /\ mainPc = "show"
    /\ ~doneClosed

----------------------------------------------------------------------------
(* The result messageRunner receives on a tick (Pipeline) *)

\* a receive from pubChan returns nil at once: the channel is closed and
\* holds nothing
PubChanYieldsNil == pubClosed /\ pubChan = <<>>

\* C30: whenever messageRunner stands at the receive of its tick case
\* (result := <-pubChan), the channel cannot hand it nil: the value passed to
\* ToMQTTMessage is a Result, also when the tick fires after frameRunner
\* closed pubChan.
C30_TickReceivesResult ==
    (msgPc = "tickRecv" /\ ~crashed) => ~PubChanYieldsNil

----------------------------------------------------------------------------
(* The running pipeline makes progress (Pipeline) *)

\* main has left its monitor loop or is about to: a signal is waiting, an
\* error was sent, Read failed or ESC was pressed
ShutdownTriggered ==
    \/ mainPc \notin {"read", "send", "select", "show"}
    \/ sigChan = "pending"
    \/ errChan > 0

\* frameRunner has processed frame n and sent its result on resultsChan
ResultSent(n) ==
    /\ frFrame = n
    /\ frPc \in {"sendPub", "select"}
    /\ \E k \in 1..Len(processed) : processed[k].frame = n

\* main is blocked in framesChan <- frame and frameRunner in one of its sends
BothBlocked ==
    /\ mainPc = "send"
    /\ Len(framesChan) = ChanCap
    /\ \/ frPc = "sendResult" /\ Len(resultsChan) = ChanCap
       \/ frPc = "sendPub" /\ Len(pubChan) = ChanCap

\* C31: as long as no shutdown is triggered, every frame main has put into
\* framesChan is processed and its result sent, and main and frameRunner do
\* not stay blocked in their sends both at once - with publish on or off.
C31_NoSteadyStateDeadlock ==
    /\ \A n \in 1..MaxCaptured :
          (\E k \in 1..Len(framesChan) : framesChan[k] = n)
              ~> (ResultSent(n) \/ ShutdownTriggered)
    /\ BothBlocked ~> (~BothBlocked \/ ShutdownTriggered)

----------------------------------------------------------------------------
(* The range of goneCount (SpecCentroids) *)

\* the centroids the call created
Created == (DOMAIN centroids') \ (DOMAIN centroids)

----------------------------------------------------------------------------
(* Cars and centroids go together (Spec) *)

\* the cars not marked gone
PresentCars == {id \in DOMAIN cars : ~cars[id].gone}

\* the identifier was handed out and belongs to no centroid and no car
Retired(id) == id < nextId /\ id \notin DOMAIN centroids /\ id \notin DOMAIN cars

\* C33: after every frame cycle the cars not marked gone are exactly the
\* cars of the centroids in the map and every car is stored under its own
\* ID; a car marked gone is never seen unmarked again, and the identifier
\* of a centroid and car that are no more is not given to a new car.
C33_CarsMirrorCentroids ==
    /\ [](pc = "frame" =>
            /\ PresentCars = DOMAIN centroids
            /\ \A id \in DOMAIN cars : cars[id].ID = id)
    /\ [][/\ \A id \in DOMAIN cars :
                cars[id].gone => (id \notin DOMAIN cars' \/ cars'[id].gone)
          /\ \A id \in 1..(MaxFrames * MaxDetections) :
                Retired(id) => (id \notin DOMAIN cars' /\ id \notin DOMAIN centroids')]_vars

\* after three frames: car 1 lost its centroid and is marked gone, car 2 is
\* tracked along its centroid, and a third identifier is in use
C33_Witness ==
    /\ pc = "frame"
    /\ nFrames = 3
    /\ 1 \in DOMAIN cars
    /\ cars[1].gone
    /\ 1 \notin DOMAIN centroids
    /\ \E id \in DOMAIN centroids :
          /\ id \in DOMAIN cars
          /\ ~cars[id].gone
          /\ Len(cars[id].Traject) = 2
    /\ nextId >= 3

----------------------------------------------------------------------------
(* No car is left behind (Spec) *)

\* C34: with entrance t, b, l or r, a car that CarMap.Update marked gone is
\* out of the map of cars after the CarMap.Update of the next frame cycle at
\* the latest, so that at the end of a cycle the map holds the cars of the
\* centroids and, besides them, only cars marked gone in that very cycle.
C34_GoneCarsRemoved ==
    /\ [][pc = "cars" =>
            \A id \in DOMAIN cars : cars[id].gone => id \notin DOMAIN cars']_vars
    /\ [](pc = "frame" =>
            \A id \in DOMAIN cars : id \in DOMAIN centroids \/ cars[id].gone)

\* maxGone 1: the car of the first frame was not seen again, lost its
\* centroid in the third frame, where it was marked gone, and was removed by
\* the CarMap.Update of the fourth
C34_Witness ==
    /\ maxGone = 1
    /\ nFrames = 4
    /\ pc = "lot"
    /\ nextId = 2
    /\ DOMAIN centroids = {}
    /\ DOMAIN cars = {}
    /\ TotalIn = 0
    /\ TotalOut = 0

----------------------------------------------------------------------------
(* Two frameRunners side by side: the second one is started with another    *)
(* entrance and sees the frames of the first one or their reflections       *)

\* t <-> b, l <-> r
Opposite(e) ==
    CASE e = "t" -> "b"
      [] e = "b" -> "t"
      [] e = "l" -> "r"
      [] e = "r" -> "l"

MaxOf(S) == CHOOSE m \in S : \A x \in S : x <= m

\* y -> H - y for entrances t and b, x -> W - x for l and r, with H and W the
\* largest coordinates of the frames
Reflect(p) ==
    IF VerticalMove
    THEN Pt(p.X, MaxOf({q.Y : q \in FramePoints}) - p.Y)
    ELSE Pt(MaxOf({q.X : q \in FramePoints}) - p.X, p.Y)

ReflectAll(points) == [i \in 1..Len(points) |-> Reflect(points[i])]

\* the loop body of ParkingLot.Update in the program started with
\* -entrance e
LotCarAs(e, car) ==
    IF ~car.counted
    THEN IF ~car.gone
         THEN IF InboundHit(e, car.Dir)
              THEN [in |-> 1, out |-> 0, keep |-> TRUE, car |-> [car EXCEPT !.counted = TRUE]]
              ELSE [in |-> 0, out |-> 0, keep |-> TRUE, car |-> car]
         ELSE IF OutboundHit(e, car.Dir)
              THEN [in |-> 0, out |-> 1, keep |-> FALSE, car |-> car]
              ELSE [in |-> 0, out |-> 0, keep |-> TRUE, car |-> car]
    ELSE IF car.gone
         THEN [in |-> 0, out |-> 0, keep |-> FALSE, car |-> car]
         ELSE [in |-> 0, out |-> 0, keep |-> TRUE, car |-> car]

\* ParkingLot.Update in the program started with -entrance e
ParkingLotUpdateAs(e, cm) ==
    LET r == [id \in DOMAIN cm |-> LotCarAs(e, cm[id])]
    IN  [cars |-> [id \in {i \in DOMAIN cm : r[i].keep} |-> r[id].car],
         in |-> [id \in DOMAIN cm |-> r[id].in],
         out |-> [id \in DOMAIN cm |-> r[id].out]]

\* the identifiers of the centroids an Update associated, point by point
AssocIds(a) == [k \in 1..Len(a) |-> [i |-> a[k].i, id |-> a[k].id]]

\* centroids.Update(centerPoints) in both programs, the second one getting
\* the same points or their reflections; where the iteration order of the
\* map decides between centroids at the same distance, it decides the same
\* way in both
TwinCentroidsUpdate(reflected) ==
    /\ pc = "frame"
    /\ nFrames < MaxFrames
    /\ \E points \in FramePointLists :
         \E r \in CentroidMapUpdate(centroids, nextId, points) :
         \E m \in CentroidMapUpdate(mirror.centroids, nextId,
                                     IF reflected THEN ReflectAll(points) ELSE points) :
            /\ AssocIds(m.assoc) = AssocIds(r.assoc)
            /\ centerPoints' = points
            /\ centroids' = r.cm
            /\ nextId' = r.next
            /\ assoc' = r.assoc
            /\ mirror' = [mirror EXCEPT !.centroids = m.cm]
    /\ nFrames' = nFrames + 1
    /\ pc' = "cars"
    /\ UNCHANGED <<entrance, maxDist, maxGone, cars, TotalIn, TotalOut, inCount, outCount>>
    /\ UNCHANGED pipeVars
    /\ UNCHANGED extractVars

\* cars.Update(centroids) in both programs
TwinCarsUpdate ==
    /\ pc = "cars"
    /\ cars' = CarMapUpdate(cars, centroids)
    /\ mirror' = [mirror EXCEPT !.cars = CarMapUpdate(mirror.cars, mirror.centroids)]
    /\ pc' = "lot"
    /\ UNCHANGED <<entrance, maxDist, maxGone, centroids, TotalIn, TotalOut, nextId,
                   centerPoints, nFrames, assoc, inCount, outCount>>
    /\ UNCHANGED pipeVars
    /\ UNCHANGED extractVars

\* parkingLot.Update(cars) in both programs, the second one started with
\* -entrance e
TwinLotUpdate(e) ==
    /\ pc = "lot"
    /\ LET r == ParkingLotUpdate(cars)
           m == ParkingLotUpdateAs(e, mirror.cars)
       IN  /\ cars' = r.cars
           /\ TotalIn' = TotalIn + SumOver(DOMAIN cars, r.in)
           /\ TotalOut' = TotalOut + SumOver(DOMAIN cars, r.out)
           /\ inCount' = AddCounts(inCount, r.in)
           /\ outCount' = AddCounts(outCount, r.out)
           /\ mirror' = [mirror EXCEPT
                            !.cars = m.cars,
                            !.TotalIn = @ + SumOver(DOMAIN mirror.cars, m.in),
                            !.TotalOut = @ + SumOver(DOMAIN mirror.cars, m.out)]
    /\ pc' = "frame"
    /\ UNCHANGED <<entrance, maxDist, maxGone, centroids, nextId, centerPoints, nFrames, assoc>>
    /\ UNCHANGED pipeVars
    /\ UNCHANGED extractVars

\* The second program has the opposite entrance and sees every frame
\* reflected along the movement axis (SpecMirror)
MirrorCentroidsUpdate == TwinCentroidsUpdate(TRUE)

MirrorLotUpdate == TwinLotUpdate(Opposite(entrance))

NextMirror == MirrorCentroidsUpdate \/ TwinCarsUpdate \/ MirrorLotUpdate

SpecMirror == Init /\ [][NextMirror]_vars

\* UP <-> DOWN, LEFT <-> RIGHT
SwapDir(d) ==
    CASE d = "UP" -> "DOWN"
      [] d = "DOWN" -> "UP"
      [] d = "LEFT" -> "RIGHT"
      [] d = "RIGHT" -> "LEFT"
      [] OTHER -> d

\* C35: the program started with the opposite entrance on the reflected
\* frames tracks the same cars, gives every car in every frame the swapped
\* direction (STILL for STILL), and has the same TotalIn and TotalOut after
\* every frame - also while a centroid stays unmatched in the map.
C35_MirrorSymmetric ==
    /\ DOMAIN mirror.cars = DOMAIN cars
    /\ \A id \in (DOMAIN cars) \cap (DOMAIN mirror.cars) :
          mirror.cars[id].Dir = SwapDir(cars[id].Dir)
    /\ mirror.TotalIn = TotalIn
    /\ mirror.TotalOut = TotalOut

----------------------------------------------------------------------------
(* The first program has an upper-case entrance, the second one the same    *)
(* letter in lower case; both see the same frames (SpecFold)                *)

ToLower(e) ==
    CASE e = "T" -> "t"
      [] e = "B" -> "b"
      [] e = "L" -> "l"
      [] e = "R" -> "r"
      [] OTHER -> e

FoldCentroidsUpdate == TwinCentroidsUpdate(FALSE)

FoldLotUpdate == TwinLotUpdate(ToLower(entrance))

NextFold == FoldCentroidsUpdate \/ TwinCarsUpdate \/ FoldLotUpdate

SpecFold == InitUpper /\ [][NextFold]_vars

\* C36: started with "B" or with "b" (with "R" or with "r"), the program
\* gives every car the same direction, counts the same TotalIn and TotalOut
\* and tracks the same cars after every frame cycle.
C36_EntranceCaseIgnored ==
    /\ DOMAIN mirror.cars = DOMAIN cars
    /\ \A id \in (DOMAIN cars) \cap (DOMAIN mirror.cars) :
          mirror.cars[id].Dir = cars[id].Dir
    /\ pc = "frame" =>
          /\ mirror.TotalIn = TotalIn
          /\ mirror.TotalOut = TotalOut
          /\ mirror.cars = cars

----------------------------------------------------------------------------
(* Every point gets a centroid (SpecCentroids) *)

\* the centroids matched or created by the call that has just ended
Fresh == {id \in DOMAIN centroids' : centroids'[id].goneCount = 0}

\* C37: after a call of CentroidMap.Update with n >= 1 pairwise distinct
\* points, every point of the call is the position of a centroid with
\* goneCount 0, and at least n centroids have goneCount 0.
C37_NoDetectionDropped ==
    [][(IsUpdate /\ centerPoints' # <<>>) =>
        /\ \A i \in 1..Len(centerPoints') :
              \E id \in Fresh : centroids'[id].Point = centerPoints'[i]
        /\ Cardinality(Fresh) >= Len(centerPoints')]_vars

====
